---------------------------- MODULE Spec2Model ----------------------------
(***************************************************************************)
(* CNJSaude: multi-valued cell parsing, public-entity classification,      *)
(* chunked frequency scans and the Top-N presentation table.               *)
(*                                                                         *)
(* Text is modelled as a sequence of one-character strings, so that        *)
(* trimming, brace stripping, splitting, upper-casing and substring tests  *)
(* are computed character by character, as the Python code does.           *)
(***************************************************************************)
EXTENDS Integers, Sequences, FiniteSets, TLC

(***************************************************************************)
(* Bounds of the model.                                                    *)
(***************************************************************************)
\* longest cell text enumerated for the tokenizer / classifier
MaxCellLen == 5
\* most data rows of an enumerated source file
MaxRows == 2
\* largest CHUNKSIZE_ANALISE enumerated
MaxChunk == 2
\* largest top_n enumerated
MaxTopN == 2
\* at most this many files in PASTA_DADOS_REGIONAIS
MaxRegionais == 2

(***************************************************************************)
(* Characters and strings.                                                 *)
(***************************************************************************)
\* str.isspace() restricted to the characters the model enumerates
IsSpace(c) == c \in {" ", "\t"}

LowerLetters == <<"a", "b", "g", "i", "l", "o", "s", "u", "n">>
UpperLetters == <<"A", "B", "G", "I", "L", "O", "S", "U", "N">>

\* str.upper() on one character
UpperChar(c) ==
    IF \E i \in 1..Len(LowerLetters) : LowerLetters[i] = c
    THEN UpperLetters[CHOOSE i \in 1..Len(LowerLetters) : LowerLetters[i] = c]
    ELSE c

\* str.upper()
Upper(s) == [i \in 1..Len(s) |-> UpperChar(s[i])]

\* number of leading whitespace characters of s
RECURSIVE LeadingSpaces(_)
LeadingSpaces(s) ==
    IF s # <<>> /\ IsSpace(Head(s)) THEN 1 + LeadingSpaces(Tail(s)) ELSE 0

\* number of trailing whitespace characters of s
RECURSIVE TrailingSpaces(_)
TrailingSpaces(s) ==
    IF s # <<>> /\ IsSpace(s[Len(s)])
    THEN 1 + TrailingSpaces(SubSeq(s, 1, Len(s) - 1))
    ELSE 0

\* str.strip()
Strip(s) ==
    LET l == LeadingSpaces(s)
    IN  IF l = Len(s) THEN <<>>
        ELSE SubSeq(s, l + 1, Len(s) - TrailingSpaces(s))

\* str.startswith / str.endswith for a one-character argument
StartsWith(s, c) == s # <<>> /\ s[1] = c
EndsWith(s, c) == s # <<>> /\ s[Len(s)] = c

\* needle in hay (Python substring test)
Contains(hay, needle) ==
    \E i \in 0..(Len(hay) - Len(needle)) :
        SubSeq(hay, i + 1, i + Len(needle)) = needle

(***************************************************************************)
(* Cells: a pandas cell is missing (NaN) or holds text.                    *)
(***************************************************************************)
NaN == [nulo |-> TRUE, texto |-> <<>>]
Txt(s) == [nulo |-> FALSE, texto |-> s]

\* pd.isna(valor_celula)
IsNa(cell) == cell.nulo

(***************************************************************************)
(* re.split(r'\s*,\s*', texto): the leftmost match holds the first comma,  *)
(* starts at the whitespace run before it and greedily takes the           *)
(* whitespace run after it.                                                *)
(***************************************************************************)
HasComma(s) == \E i \in 1..Len(s) : s[i] = ","
FirstComma(s) == CHOOSE i \in 1..Len(s) : s[i] = "," /\ \A j \in 1..(i - 1) : s[j] # ","

RECURSIVE ReSplit(_)
ReSplit(s) ==
    IF ~HasComma(s) THEN <<s>>
    ELSE LET c == FirstComma(s)
             before == SubSeq(s, 1, c - 1)
             after == SubSeq(s, c + 1, Len(s))
             piece == SubSeq(before, 1, Len(before) - TrailingSpaces(before))
             rest == SubSeq(after, LeadingSpaces(after) + 1, Len(after))
         IN  <<piece>> \o ReSplit(rest)

\* a variant that keeps the pieces that are empty after trimming
StripKeepEmpty(pieces) == [i \in 1..Len(pieces) |-> Strip(pieces[i])]

\* [item.strip() for item in pieces if item.strip()]
RECURSIVE StripNonEmpty(_)
StripNonEmpty(pieces) ==
    IF pieces = <<>> THEN <<>>
    ELSE LET item == Strip(Head(pieces))
         IN  (IF item # <<>> THEN <<item>> ELSE <<>>) \o StripNonEmpty(Tail(pieces))

\* a variant that strips a brace at either end independently
parse_multi_valor_chave_solta(valor_celula) ==
    IF IsNa(valor_celula) THEN <<>>
    ELSE LET texto_str == Strip(valor_celula.texto)
             sem_ini == IF StartsWith(texto_str, "{") THEN Tail(texto_str) ELSE texto_str
             sem_fim == IF EndsWith(sem_ini, "}")
                        THEN SubSeq(sem_ini, 1, Len(sem_ini) - 1) ELSE sem_ini
         IN  StripNonEmpty(ReSplit(sem_fim))

parse_multi_valor(valor_celula) ==
    IF IsNa(valor_celula) THEN <<>>
    ELSE LET texto_str == Strip(valor_celula.texto)
         IN  IF texto_str = <<>> THEN <<>>
             ELSE LET texto_interno ==
                          IF StartsWith(texto_str, "{") /\ EndsWith(texto_str, "}")
                          THEN SubSeq(texto_str, 2, Len(texto_str) - 1)
                          ELSE texto_str
                  IN  StripNonEmpty(ReSplit(texto_interno))

(***************************************************************************)
(* eh_ente_publico: first keyword found inside an upper-cased token.       *)
(***************************************************************************)
\* a variant that compares the token with the keyword for equality
eh_ente_publico_igualdade(texto_natjur, palavras_chave) ==
    IF IsNa(texto_natjur) THEN FALSE
    ELSE LET lista_naturezas == parse_multi_valor(texto_natjur)
         IN  \E i \in 1..Len(lista_naturezas) :
                 \E chave \in palavras_chave : chave = Upper(lista_naturezas[i])

RECURSIVE AlgumaNatureza(_, _)
AlgumaNatureza(lista_naturezas, palavras_chave) ==
    IF lista_naturezas = <<>> THEN FALSE
    ELSE LET natureza_upper == Upper(Head(lista_naturezas))
         IN  IF \E chave \in palavras_chave : Contains(natureza_upper, chave)
             THEN TRUE
             ELSE AlgumaNatureza(Tail(lista_naturezas), palavras_chave)

eh_ente_publico(texto_natjur, palavras_chave) ==
    IF IsNa(texto_natjur) THEN FALSE
    ELSE LET lista_naturezas == parse_multi_valor(texto_natjur)
         IN  IF lista_naturezas = <<>> THEN FALSE
             ELSE AlgumaNatureza(lista_naturezas, palavras_chave)

\* ", ".join(tokens)
RECURSIVE JoinCommaSpace(_)
JoinCommaSpace(tokens) ==
    IF tokens = <<>> THEN <<>>
    ELSE IF Len(tokens) = 1 THEN tokens[1]
    ELSE tokens[1] \o <<",", " ">> \o JoinCommaSpace(Tail(tokens))


(***************************************************************************)
(* State.                                                                  *)
(***************************************************************************)
VARIABLES
    \* tokenizer / classifier harness
    cell,        \* the cell handed to parse_multi_valor / eh_ente_publico
    tokens,      \* parse_multi_valor(cell)
    retokens,    \* parse_multi_valor(", ".join(tokens))
    palavras,    \* the keyword set handed to eh_ente_publico
    ente,        \* eh_ente_publico(cell, palavras)
    tpc,         \* position of the harness
    \* one call of a frequency scan, then one call of the table formatter
    impl,                \* which script's scan runs
    fonte,               \* the CSV file: existence, header, data rows
    chunksize,           \* CHUNKSIZE_ANALISE
    colunas_analise,     \* parameter colunas_analise
    filtrar,             \* local filtrar_por_ente_publico (may be switched off)
    colunas_existentes,  \* local colunas_analise_existentes
    contadores,          \* local contadores: column -> Counter
    contagem_sigiloso,   \* local contagem_sigiloso: column -> int
    linhas_lidas,        \* local linhas_lidas_total
    linhas_processadas,  \* local linhas_processadas_analise
    pos,                 \* data rows already handed out by the chunk iterator
    resultado,           \* the value the scan returned
    pc,                  \* position of the scan
    top_n,               \* parameter top_n of the formatter
    campo,               \* the column whose result is formatted
    tabela,              \* the value the formatter returned
    \* one run of a script's main / main_analise
    programa,            \* which script runs
    consolidado,         \* the file ARQUIVO_DADOS_CONSOLIDADO
    regionais,           \* the files of PASTA_DADOS_REGIONAIS: stem and file
    arquivos_regionais,  \* local arquivos_regionais (sorted glob)
    fase,                \* position of main
    modo,                \* "geral" or "entes": the analysis main is in
    indice,              \* position of the for loop over arquivos_regionais
    resultados_gerais,   \* local resultados_todas_analises / resultados_gerais
    varridos,            \* the scans main has called so far, in order
    exibidos,            \* the calls of exibir_resultados so far (analise_output.py)
    exportacoes,         \* the calls of the exporters so far
    retornos,            \* what analisar_frequencias returns on each file of the run
    exec_args,           \* the arguments of two calls of analisar_frequencias
    exec1,               \* the first call: its set iteration orders and its return
    exec2,               \* the second call
    \* one call of filtrar_csv_por_assunto (main.py)
    caminho_csv_original,    \* the file at caminho_csv: header and subject cells
    caminho_saida_csv,       \* the file at caminho_saida_csv
    chunksize_leitura,       \* parameter chunksize of both functions of main.py
    primeiro_chunk,          \* local primeiro_chunk
    total_linhas_lidas,      \* local total_linhas_lidas
    total_linhas_filtradas,  \* local total_linhas_filtradas
    lidas_fonte,             \* data rows already handed out by iterador_csv
    fpc,                     \* position of filtrar_csv_por_assunto
    \* one call of consolidar_csvs_regionais (main.py)
    pasta_csvs_regionais,       \* the files of the regional folder, in glob order
    arquivo_saida_consolidado,  \* the file at arquivo_saida_consolidado
    primeiro_arquivo,           \* local primeiro_arquivo
    total_linhas_consolidadas,  \* local total_linhas_consolidadas
    indice_regional,            \* position of the for loop over the regional files
    i_chunk,                    \* local i of enumerate(iterador_regional)
    lidas_regional,             \* data rows already handed out by iterador_regional
    cpc,                        \* position of consolidar_csvs_regionais
    \* two calls of a scan whose batch steps interleave
    chamadas,       \* per call: script, source, position, return value
    acumuladores    \* per call: its contadores and contagem_sigiloso

tokVars == <<cell, tokens, retokens, palavras, ente, tpc>>
scanVars == <<impl, fonte, chunksize, colunas_analise, filtrar, colunas_existentes,
              contadores, contagem_sigiloso, linhas_lidas, linhas_processadas,
              pos, resultado, pc>>
tabVars == <<top_n, campo, tabela>>
mainVars == <<programa, consolidado, regionais, arquivos_regionais, fase, modo,
              indice, resultados_gerais, varridos, exibidos, exportacoes,
              retornos>>
execVars == <<exec_args, exec1, exec2>>
filtVars == <<caminho_csv_original, caminho_saida_csv, primeiro_chunk, total_linhas_lidas,
              total_linhas_filtradas, lidas_fonte, fpc>>
consVars == <<pasta_csvs_regionais, arquivo_saida_consolidado, primeiro_arquivo,
              total_linhas_consolidadas, indice_regional, i_chunk, lidas_regional,
              cpc>>
pyVars == <<chunksize_leitura, filtVars, consVars>>
concVars == <<chamadas, acumuladores>>
vars == <<tokVars, scanVars, tabVars, mainVars, execVars, pyVars, concVars>>

\* no main is running
MainIdle ==
    /\ programa = "none"
    /\ consolidado = [existe |-> FALSE, header |-> {}, rows |-> <<>>]
    /\ regionais = <<>>
    /\ arquivos_regionais = <<>>
    /\ fase = "idle"
    /\ modo = "none"
    /\ indice = 0
    /\ resultados_gerais = <<>>
    /\ varridos = <<>>
    /\ exibidos = <<>>
    /\ exportacoes = <<>>
    /\ retornos = <<>>

\* no pair of calls is running
ExecNaoFeita == [feito |-> FALSE, ordem_chaves |-> <<>>, ordem_colunas |-> <<>>,
                 retorno |-> [none |-> TRUE, dados |-> <<>>]]
ExecIdle ==
    /\ exec_args = <<>>
    /\ exec1 = ExecNaoFeita
    /\ exec2 = ExecNaoFeita

\* a path where no file is
SemArquivo == [existe |-> FALSE, st_size |-> 0, linhas |-> <<>>]

\* filtrar_csv_por_assunto is not running
FiltIdle ==
    /\ caminho_csv_original = <<>>
    /\ caminho_saida_csv = SemArquivo
    /\ primeiro_chunk = TRUE
    /\ total_linhas_lidas = 0
    /\ total_linhas_filtradas = 0
    /\ lidas_fonte = 0
    /\ fpc = "idle"

\* consolidar_csvs_regionais is not running
ConsIdle ==
    /\ pasta_csvs_regionais = <<>>
    /\ arquivo_saida_consolidado = SemArquivo
    /\ primeiro_arquivo = TRUE
    /\ total_linhas_consolidadas = 0
    /\ indice_regional = 0
    /\ i_chunk = 0
    /\ lidas_regional = 0
    /\ cpc = "idle"

\* no function of main.py is running
PyIdle ==
    /\ chunksize_leitura = 0
    /\ FiltIdle
    /\ ConsIdle

\* no interleaved calls are running
ConcIdle ==
    /\ chamadas = <<>>
    /\ acumuladores = <<>>

(***************************************************************************)
(* Inputs of the tokenizer / classifier.                                   *)
(***************************************************************************)
Alphabet == {"{", "}", ",", " ", "a", "B"}
StrsUpTo(n) == UNION {[1..k -> Alphabet] : k \in 0..n}
Cells == {NaN} \cup {Txt(s) : s \in StrsUpTo(MaxCellLen)}
Keywords == {<<"A">>, <<"A", "B">>, <<"B", "A">>}

\* the scan and the formatter are not running
ScanIdle ==
    /\ impl = "none"
    /\ fonte = [existe |-> FALSE, header |-> {}, rows |-> <<>>]
    /\ chunksize = 1
    /\ colunas_analise = <<>>
    /\ filtrar = FALSE
    /\ colunas_existentes = <<>>
    /\ contadores = <<>>
    /\ contagem_sigiloso = <<>>
    /\ linhas_lidas = 0
    /\ linhas_processadas = 0
    /\ pos = 0
    /\ resultado = [none |-> TRUE, dados |-> <<>>]
    /\ pc = "idle"
    /\ top_n = 0
    /\ campo = "none"
    /\ tabela = [none |-> TRUE, linhas |-> <<>>]

TokInit ==
    /\ cell \in Cells
    /\ tokens = <<>>
    /\ retokens = <<>>
    /\ palavras = {}
    /\ ente = FALSE
    /\ tpc = "entrada"
    /\ ScanIdle
    /\ MainIdle
    /\ ExecIdle
    /\ PyIdle
    /\ ConcIdle

\* valores = parse_multi_valor(valor_celula)
Tokenizar ==
    /\ tpc = "entrada"
    /\ tokens' = parse_multi_valor(cell)
    /\ tpc' = "tokens"
    /\ UNCHANGED <<cell, retokens, palavras, ente, scanVars, tabVars, mainVars, execVars, pyVars, concVars>>

\* parse_multi_valor applied to its own output joined with ", "
Reunir ==
    /\ tpc = "tokens"
    /\ retokens' = parse_multi_valor(Txt(JoinCommaSpace(tokens)))
    /\ tpc' = "reunido"
    /\ UNCHANGED <<cell, tokens, palavras, ente, scanVars, tabVars, mainVars, execVars, pyVars, concVars>>

\* eh_ente_publico(texto_natjur, palavras_chave)
Classificar ==
    /\ tpc = "tokens"
    /\ \E ks \in SUBSET Keywords :
           /\ palavras' = ks
           /\ ente' = eh_ente_publico(cell, ks)
    /\ tpc' = "classificado"
    /\ UNCHANGED <<cell, tokens, retokens, scanVars, tabVars, mainVars, execVars, pyVars, concVars>>

TokNext == Tokenizar \/ Reunir \/ Classificar

SpecTok == TokInit /\ [][TokNext]_vars

(***************************************************************************)
(* Reference description of the tokenizer, independent of the regex split. *)
(***************************************************************************)
\* the text without its surrounding whitespace, described by its end points
TrimRef(s) ==
    IF \A i \in 1..Len(s) : IsSpace(s[i]) THEN <<>>
    ELSE LET i == CHOOSE a \in 1..Len(s) :
                      ~IsSpace(s[a]) /\ \A b \in 1..(a - 1) : IsSpace(s[b])
             j == CHOOSE a \in 1..Len(s) :
                      ~IsSpace(s[a]) /\ \A b \in (a + 1)..Len(s) : IsSpace(s[b])
         IN  SubSeq(s, i, j)

\* split on every comma, nothing else
RECURSIVE SplitCommas(_)
SplitCommas(s) ==
    IF ~HasComma(s) THEN <<s>>
    ELSE LET c == FirstComma(s)
         IN  <<SubSeq(s, 1, c - 1)>> \o SplitCommas(SubSeq(s, c + 1, Len(s)))

TokensRef(c) ==
    IF IsNa(c) \/ TrimRef(c.texto) = <<>> THEN <<>>
    ELSE LET t == TrimRef(c.texto)
             inner == IF t[1] = "{" /\ t[Len(t)] = "}"
                      THEN SubSeq(t, 2, Len(t) - 1) ELSE t
             pieces == SplitCommas(inner)
             trimmed == [i \in 1..Len(pieces) |-> TrimRef(pieces[i])]
         IN  SelectSeq(trimmed, LAMBDA x : x # <<>>)

\* C5: parse_multi_valor returns exactly: [] for a missing or blank cell; else
\* the trimmed text, less one leading '{' and one trailing '}' only when both
\* are there, split on commas, each piece trimmed, empty pieces dropped, in
\* order with duplicates.  No token is empty, has surrounding whitespace or
\* holds a comma.
C5_ParseExact ==
    tpc # "entrada" =>
        /\ tokens = TokensRef(cell)
        /\ \A i \in 1..Len(tokens) :
               /\ tokens[i] # <<>>
               /\ ~IsSpace(tokens[i][1])
               /\ ~IsSpace(tokens[i][Len(tokens[i])])
               /\ ~HasComma(tokens[i])

\* braces stripped once, the trailing comma gives no empty token
C5_Witness ==
    /\ tpc = "tokens"
    /\ cell = Txt(<<"{", "a", ",", "}">>)
    /\ tokens = << <<"a">> >>

\* the text handed back to the tokenizer: ", ".join(tokens)
Rejoined == JoinCommaSpace(tokens)
RejoinedWrapped == StartsWith(Rejoined, "{") /\ EndsWith(Rejoined, "}")

\* C6 as stated: parse_multi_valor(", ".join(parse_multi_valor(x))) equals
\* parse_multi_valor(x) for every cell x, tokens holding braces included.
C6_Idempotent ==
    tpc = "reunido" => retokens = tokens

\* C6 amended: the round trip returns the same tokens exactly when the joined
\* text is not itself wrapped in '{' ... '}'; a joined text that starts with
\* '{' and ends with '}' loses one more pair of braces.
C6_IdempotentUnlessWrapped ==
    tpc = "reunido" => ((retokens = tokens) <=> ~RejoinedWrapped)

\* tokens that hold braces, joined text not wrapped: the round trip is stable
C6_Witness ==
    /\ tpc = "reunido"
    /\ cell = Txt(<<"{", "a", "}", ",", "B">>)
    /\ tokens = << <<"{", "a", "}">>, <<"B">> >>
    /\ retokens = tokens

\* C7: eh_ente_publico is true exactly when some keyword of the set occurs
\* inside the upper-cased text of one single token of the cell; false for a
\* missing cell and a cell without tokens.
C7_SubstringOfOneToken ==
    tpc = "classificado" =>
        /\ ente <=> (\E i \in 1..Len(tokens) :
                        \E k \in palavras : Contains(Upper(tokens[i]), k))
        /\ (IsNa(cell) \/ tokens = <<>>) => ~ente

\* the keyword A lies inside the token aB without being equal to it
C7_Witness ==
    /\ tpc = "classificado"
    /\ cell = Txt(<<"a", "B">>)
    /\ palavras = {<<"A">>}
    /\ ente

\* the keyword AB is spread over two tokens: no match
C7_WitnessAcross ==
    /\ tpc = "classificado"
    /\ cell = Txt(<<"a", ",", "B">>)
    /\ palavras = {<<"A", "B">>}
    /\ ~ente

(***************************************************************************)
(* Frequency scans: the sources and the parameters enumerated.             *)
(***************************************************************************)
Min(a, b) == IF a < b THEN a ELSE b
Range(f) == {f[i] : i \in DOMAIN f}

\* the confidential marker compared with item.strip().upper()
SIGILOSO == <<"S", "I", "G", "I", "L", "O", "S", "O">>

Campos == {"F", "G"}
\* parameter coluna_filtro_ente / coluna_natjur_passivo
ColunaFiltro == "G"
\* parameter palavras_chave_entes
PalavrasChaveEntes == {<<"B">>}
\* lists handed in as colunas_analise: with and without the filter column
ColunasAnaliseOpcoes == {<<"F", "G">>, <<"F">>}

CelF == {NaN,
         Txt(<<"{", "A", ",", " ", "B", "}">>),
         Txt(<<"{", "A", ",", " ", "S", "I", "G", "I", "L", "O", "S", "O", "}">>),
         Txt(<<"{", "S", "I", "G", "I", "L", "O", "S", "O", "}">>),
         Txt(<<" ">>)}
CelG == {NaN,
         Txt(<<"{", "b", ",", " ", "B", "}">>),
         Txt(<<"{", "s", "i", "g", "i", "l", "o", "s", "o", "}">>)}

RowsOver(h) == {[c \in h |-> IF c = "F" THEN p[1] ELSE p[2]] : p \in CelF \X CelG}
RowSeqs(h) == UNION {[1..n -> RowsOver(h)] : n \in 0..MaxRows}
ArquivoAusente == [existe |-> FALSE, header |-> {}, rows |-> <<>>]
Fontes ==
    {ArquivoAusente} \cup
    UNION {{[existe |-> TRUE, header |-> h, rows |-> r] : r \in RowSeqs(h)} :
               h \in SUBSET Campos}

\* return None / return resultados_finais
None == [none |-> TRUE, dados |-> <<>>]
Some(d) == [none |-> FALSE, dados |-> d]

(***************************************************************************)
(* Counter and Series helpers.                                             *)
(***************************************************************************)
\* Counter()
EmptyCounter == [x \in {} |-> 0]

\* a variant of the increment that enters a new token with the count 0
IncrementarDoZero(contador, item) ==
    IF item \in DOMAIN contador
    THEN [contador EXCEPT ![item] = @ + 1]
    ELSE (item :> 0) @@ contador

\* a variant of the increment that starts the Counter over
IncrementarReinicia(contador, item) == (item :> 1)

\* contador[item] += 1
Incrementar(contador, item) ==
    IF item \in DOMAIN contador
    THEN [contador EXCEPT ![item] = @ + 1]
    ELSE (item :> 1) @@ contador

\* sum(contador.values())
RECURSIVE SomaContador(_)
SomaContador(contador) ==
    IF DOMAIN contador = {} THEN 0
    ELSE LET k == CHOOSE x \in DOMAIN contador : TRUE
         IN  contador[k] + SomaContador([x \in DOMAIN contador \ {k} |-> contador[x]])

\* a variant that sorts by non-decreasing count
OrdensAsc(contador) ==
    LET D == DOMAIN contador
        n == Cardinality(D)
    IN  {o \in [1..n -> D] :
            \A i, j \in 1..n : i < j => o[i] # o[j] /\ contador[o[i]] <= contador[o[j]]}

\* the key orders sort_values(ascending=False) may return: any arrangement of
\* the keys with non-increasing counts (the order among equal counts is left
\* to the sort algorithm)
OrdensDesc(contador) ==
    LET D == DOMAIN contador
        n == Cardinality(D)
    IN  {o \in [1..n -> D] :
            \A i, j \in 1..n : i < j => o[i] # o[j] /\ contador[o[i]] >= contador[o[j]]}

\* pd.Series(contador) in the key order o
Serie(contador, o) ==
    [i \in 1..Len(o) |-> [Item |-> o[i], Contagem |-> contador[o[i]]]]

\* pd.Series(dtype=int)
SerieVazia == <<>>

\* one sort order for each column of cols
EscolhasDeOrdem(cols, cont) ==
    {f \in [cols -> UNION {OrdensDesc(cont[c]) : c \in cols}] :
        \A c \in cols : f[c] \in OrdensDesc(cont[c])}

(***************************************************************************)
(* Chunk helpers.                                                          *)
(***************************************************************************)
\* the next chunk the iterator yields
ProximoChunk ==
    SubSeq(fonte.rows, pos + 1, Min(pos + chunksize, Len(fonte.rows)))

\* the iterator yields a chunk: rows are left, or it is the first read (the
\* first read of a source without rows yields one empty chunk)
TemChunk ==
    \/ pc = "primeiro"
    \/ pc = "lendo" /\ pos < Len(fonte.rows)

\* a variant of the mask that lets rows with a missing filter cell through
FiltrarEntesComNulos(chunk) ==
    SelectSeq(chunk, LAMBDA r : IsNa(r[ColunaFiltro])
                                \/ eh_ente_publico(r[ColunaFiltro], PalavrasChaveEntes))

\* chunk[mascara_ente_publico]
FiltrarEntes(chunk) ==
    SelectSeq(chunk, LAMBDA r : eh_ente_publico(r[ColunaFiltro], PalavrasChaveEntes))

\* chunk[coluna].dropna()
ColData(chunk, coluna) ==
    SelectSeq([i \in 1..Len(chunk) |-> chunk[i][coluna]], LAMBDA c : ~IsNa(c))

\* a variant of the tally that stores tokens under their upper-cased form
RECURSIVE ContarItensUpper(_, _)
ContarItensUpper(acc, lista_items) ==
    IF lista_items = <<>> THEN acc
    ELSE LET item_strip_upper == Upper(Strip(Head(lista_items)))
             novo == IF item_strip_upper = SIGILOSO
                     THEN [acc EXCEPT !.sigiloso = @ + 1]
                     ELSE [acc EXCEPT !.contador = Incrementar(@, item_strip_upper)]
         IN  ContarItensUpper(novo, Tail(lista_items))

\* for item in lista_items: SIGILOSO is tallied apart, else contadores[item] += 1
RECURSIVE ContarItens(_, _)
ContarItens(acc, lista_items) ==
    IF lista_items = <<>> THEN acc
    ELSE LET item == Head(lista_items)
             item_strip_upper == Upper(Strip(item))
             novo == IF item_strip_upper = SIGILOSO
                     THEN [acc EXCEPT !.sigiloso = @ + 1]
                     ELSE IF item_strip_upper # <<>>
                          THEN [acc EXCEPT !.contador = Incrementar(@, item)]
                          ELSE acc
         IN  ContarItens(novo, Tail(lista_items))

\* for lista_items in col_data.apply(parse_multi_valor): ...
RECURSIVE ContarColuna(_, _)
ContarColuna(acc, col_data) ==
    IF col_data = <<>> THEN acc
    ELSE ContarColuna(ContarItens(acc, parse_multi_valor(Head(col_data))),
                      Tail(col_data))

\* the accumulator of one column after the chunk
AcumularColuna(chunk, coluna) ==
    ContarColuna([contador |-> contadores[coluna],
                  sigiloso |-> contagem_sigiloso[coluna]],
                 ColData(chunk, coluna))

(***************************************************************************)
(* The scan starts: parameters and source are fixed, locals are fresh.     *)
(***************************************************************************)
TokIdle ==
    /\ cell = NaN
    /\ tokens = <<>>
    /\ retokens = <<>>
    /\ palavras = {}
    /\ ente = FALSE
    /\ tpc = "idle"

Init ==
    /\ impl \in {"gerar", "sus", "output"}
    /\ fonte \in Fontes
    /\ chunksize \in 1..MaxChunk
    /\ colunas_analise \in ColunasAnaliseOpcoes
    /\ filtrar \in (IF impl = "gerar" THEN BOOLEAN ELSE {impl = "sus"})
    /\ colunas_existentes = <<>>
    /\ contadores = [col \in Range(colunas_analise) |-> EmptyCounter]
    /\ contagem_sigiloso = [col \in Range(colunas_analise) |-> 0]
    /\ linhas_lidas = 0
    /\ linhas_processadas = 0
    /\ pos = 0
    /\ resultado = None
    /\ pc = "inicio"
    /\ top_n = 0
    /\ campo = "none"
    /\ tabela = [none |-> TRUE, linhas |-> <<>>]
    /\ TokIdle
    /\ MainIdle
    /\ ExecIdle
    /\ PyIdle
    /\ ConcIdle

\* the scan returns None
RetornarNone ==
    /\ resultado' = None
    /\ pc' = "fim"

\* {'contagens': pd.Series(dtype=int), 'total_ocorrencias': 0, 'contagem_sigiloso': 0}
DadosVazios ==
    [contagens |-> SerieVazia, total_ocorrencias |-> 0, contagem_sigiloso |-> 0]

\* a variant of the total that leaves the confidential occurrences out
TotalSemSigilosos(contador, sigilosos) == SomaContador(contador)

\* total_ocorrencias_geral = sum(contador.values()) + sigilosos
TotalOcorrenciasGeral(contador, sigilosos) == SomaContador(contador) + sigilosos

\* the entry of one analysed column that was accumulated
DadosColuna(contador, sigilosos, ordem) ==
    LET total_ocorrencias_geral == TotalOcorrenciasGeral(contador, sigilosos)
    IN  IF total_ocorrencias_geral = 0 THEN DadosVazios
        ELSE [contagens |-> Serie(contador, ordem),
              total_ocorrencias |-> total_ocorrencias_geral,
              contagem_sigiloso |-> sigilosos]

(***************************************************************************)
(* analisar_frequencias of gerar_relatorio_analise_cnj.py                  *)
(***************************************************************************)
\* up to the chunk loop: file check, header peek, fresh accumulators
Abrir_gerar ==
    /\ pc = "inicio"
    /\ impl = "gerar"
    /\ IF ~fonte.existe
       THEN /\ RetornarNone
            /\ UNCHANGED <<filtrar, colunas_existentes, contadores, contagem_sigiloso>>
       ELSE LET colunas_presentes == fonte.header
                existentes == SelectSeq(colunas_analise,
                                        LAMBDA col : col \in colunas_presentes)
                coluna_filtro_ente_existe == ColunaFiltro \in colunas_presentes
            IN  IF existentes = <<>>
                THEN /\ RetornarNone
                     /\ UNCHANGED <<filtrar, colunas_existentes, contadores,
                                    contagem_sigiloso>>
                ELSE /\ filtrar' = (filtrar /\ coluna_filtro_ente_existe)
                     /\ colunas_existentes' = existentes
                     /\ contadores' = [col \in Range(existentes) |-> EmptyCounter]
                     /\ contagem_sigiloso' = [col \in Range(existentes) |-> 0]
                     /\ pc' = "primeiro"
                     /\ UNCHANGED resultado
    /\ UNCHANGED <<impl, fonte, chunksize, colunas_analise, linhas_lidas,
                   linhas_processadas, pos, tokVars, tabVars, mainVars, execVars, pyVars, concVars>>

\* one pass of the chunk loop.  The closing "del ..., col_data, items_parsed"
\* raises NameError when items_parsed was never bound in this pass, that is
\* when no analysed column of the chunk has a non-null cell; the function's
\* outer except turns that into return None.
Chunk_gerar ==
    /\ TemChunk
    /\ impl = "gerar"
    /\ LET chunk == ProximoChunk
           chunk_processar == IF filtrar THEN FiltrarEntes(chunk) ELSE chunk
           items_parsed_bound ==
               \E coluna \in Range(colunas_existentes) :
                   ColData(chunk_processar, coluna) # <<>>
           acc == [coluna \in Range(colunas_existentes) |->
                       AcumularColuna(chunk_processar, coluna)]
       IN  /\ linhas_lidas' = linhas_lidas + Len(chunk)
           /\ linhas_processadas' = linhas_processadas + Len(chunk_processar)
           /\ pos' = pos + Len(chunk)
           /\ IF chunk_processar = <<>>
              THEN /\ pc' = "lendo"
                   /\ UNCHANGED <<contadores, contagem_sigiloso, resultado>>
              ELSE IF ~items_parsed_bound
              THEN /\ RetornarNone
                   /\ UNCHANGED <<contadores, contagem_sigiloso>>
              ELSE /\ contadores' = [coluna \in Range(colunas_existentes) |->
                                         acc[coluna].contador]
                   /\ contagem_sigiloso' = [coluna \in Range(colunas_existentes) |->
                                                acc[coluna].sigiloso]
                   /\ pc' = "lendo"
                   /\ UNCHANGED resultado
    /\ UNCHANGED <<impl, fonte, chunksize, colunas_analise, filtrar,
                   colunas_existentes, tokVars, tabVars, mainVars, execVars, pyVars, concVars>>

\* after the loop: one entry for every requested column
Finalizar_gerar ==
    /\ pc = "lendo"
    /\ impl = "gerar"
    /\ pos = Len(fonte.rows)
    /\ \E ordens \in EscolhasDeOrdem(Range(colunas_existentes), contadores) :
           resultado' = Some(
               [coluna \in Range(colunas_analise) |->
                   IF coluna \notin Range(colunas_existentes) THEN DadosVazios
                   ELSE DadosColuna(contadores[coluna], contagem_sigiloso[coluna],
                                    ordens[coluna])])
    /\ pc' = "fim"
    /\ UNCHANGED <<impl, fonte, chunksize, colunas_analise, filtrar,
                   colunas_existentes, contadores, contagem_sigiloso, linhas_lidas,
                   linhas_processadas, pos, tokVars, tabVars, mainVars, execVars, pyVars, concVars>>

(***************************************************************************)
(* analisar_frequencias_entes_publicos of analise_output_sus.py            *)
(***************************************************************************)
\* list(set(colunas_analise + [coluna_natjur_passivo])), in one fixed order
\* (the code uses it only for membership and as usecols)
ColunasParaLer ==
    colunas_analise \o
        (IF ColunaFiltro \in Range(colunas_analise) THEN <<>> ELSE <<ColunaFiltro>>)

Abrir_sus ==
    /\ pc = "inicio"
    /\ impl = "sus"
    /\ IF ~fonte.existe
       THEN /\ RetornarNone
            /\ UNCHANGED colunas_existentes
       ELSE LET colunas_presentes == fonte.header
                existentes == SelectSeq(ColunasParaLer,
                                        LAMBDA col : col \in colunas_presentes)
            IN  IF existentes = <<>> \/ ColunaFiltro \notin Range(existentes)
                THEN /\ RetornarNone
                     /\ UNCHANGED colunas_existentes
                ELSE /\ colunas_existentes' = existentes
                     /\ pc' = "primeiro"
                     /\ UNCHANGED resultado
    /\ UNCHANGED <<impl, fonte, chunksize, colunas_analise, filtrar, contadores,
                   contagem_sigiloso, linhas_lidas, linhas_processadas, pos,
                   tokVars, tabVars, mainVars, execVars, pyVars, concVars>>

\* one pass of the chunk loop.  The closing "del ..., col_data, items_parsed"
\* raises NameError when col_data or items_parsed was never bound in this
\* pass; the outer except turns that into return None.
Chunk_sus ==
    /\ TemChunk
    /\ impl = "sus"
    /\ LET chunk == ProximoChunk
           chunk_filtrado_inicial == FiltrarEntes(chunk)
           lidas == {coluna \in Range(colunas_analise) :
                        coluna \in Range(colunas_existentes)}
           col_data_bound == lidas # {}
           items_parsed_bound ==
               \E coluna \in lidas : ColData(chunk_filtrado_inicial, coluna) # <<>>
           acc == [coluna \in lidas |-> AcumularColuna(chunk_filtrado_inicial, coluna)]
       IN  /\ linhas_lidas' = linhas_lidas + Len(chunk)
           /\ linhas_processadas' = linhas_processadas + Len(chunk_filtrado_inicial)
           /\ pos' = pos + Len(chunk)
           /\ IF chunk_filtrado_inicial = <<>>
              THEN /\ pc' = "lendo"
                   /\ UNCHANGED <<contadores, contagem_sigiloso, resultado>>
              ELSE IF ~(col_data_bound /\ items_parsed_bound)
              THEN /\ RetornarNone
                   /\ UNCHANGED <<contadores, contagem_sigiloso>>
              ELSE /\ contadores' = [coluna \in Range(colunas_analise) |->
                                         IF coluna \in lidas THEN acc[coluna].contador
                                         ELSE contadores[coluna]]
                   /\ contagem_sigiloso' = [coluna \in Range(colunas_analise) |->
                                         IF coluna \in lidas THEN acc[coluna].sigiloso
                                         ELSE contagem_sigiloso[coluna]]
                   /\ pc' = "lendo"
                   /\ UNCHANGED resultado
    /\ UNCHANGED <<impl, fonte, chunksize, colunas_analise, filtrar,
                   colunas_existentes, tokVars, tabVars, mainVars, execVars, pyVars, concVars>>

Finalizar_sus ==
    /\ pc = "lendo"
    /\ impl = "sus"
    /\ pos = Len(fonte.rows)
    /\ \E ordens \in EscolhasDeOrdem(Range(colunas_analise), contadores) :
           resultado' = Some(
               [coluna \in Range(colunas_analise) |->
                   IF coluna \notin fonte.header THEN DadosVazios
                   ELSE DadosColuna(contadores[coluna], contagem_sigiloso[coluna],
                                    ordens[coluna])])
    /\ pc' = "fim"
    /\ UNCHANGED <<impl, fonte, chunksize, colunas_analise, filtrar,
                   colunas_existentes, contadores, contagem_sigiloso, linhas_lidas,
                   linhas_processadas, pos, tokVars, tabVars, mainVars, execVars, pyVars, concVars>>

(***************************************************************************)
(* analisar_frequencias of analise_output.py: no filter, no confidential   *)
(* tally.                                                                  *)
(***************************************************************************)
\* col_data.apply(parse_multi_valor).explode().dropna().tolist()
RECURSIVE ItemsExploded(_)
ItemsExploded(col_data) ==
    IF col_data = <<>> THEN <<>>
    ELSE parse_multi_valor(Head(col_data)) \o ItemsExploded(Tail(col_data))

\* contadores[coluna].update(items)
RECURSIVE CounterUpdate(_, _)
CounterUpdate(contador, items) ==
    IF items = <<>> THEN contador
    ELSE CounterUpdate(Incrementar(contador, Head(items)), Tail(items))

Abrir_output ==
    /\ pc = "inicio"
    /\ impl = "output"
    /\ IF ~fonte.existe
       THEN /\ RetornarNone
            /\ UNCHANGED colunas_existentes
       ELSE LET colunas_presentes_no_arquivo == fonte.header
                existentes == SelectSeq(colunas_analise,
                                        LAMBDA col : col \in colunas_presentes_no_arquivo)
            IN  IF existentes = <<>>
                THEN /\ RetornarNone
                     /\ UNCHANGED colunas_existentes
                ELSE /\ colunas_existentes' = existentes
                     /\ pc' = "primeiro"
                     /\ UNCHANGED resultado
    /\ UNCHANGED <<impl, fonte, chunksize, colunas_analise, filtrar, contadores,
                   contagem_sigiloso, linhas_lidas, linhas_processadas, pos,
                   tokVars, tabVars, mainVars, execVars, pyVars, concVars>>

\* one pass of the chunk loop.  The closing "del chunk, col_data,
\* items_exploded" raises NameError when items_exploded was never bound in
\* this pass; the outer except turns that into return None.
Chunk_output ==
    /\ TemChunk
    /\ impl = "output"
    /\ LET chunk == ProximoChunk
           items_exploded_bound ==
               \E coluna \in Range(colunas_existentes) : ColData(chunk, coluna) # <<>>
       IN  /\ linhas_lidas' = linhas_lidas + Len(chunk)
           /\ pos' = pos + Len(chunk)
           /\ IF ~items_exploded_bound
              THEN /\ RetornarNone
                   /\ UNCHANGED contadores
              ELSE /\ contadores' = [coluna \in Range(colunas_analise) |->
                         IF coluna \in Range(colunas_existentes)
                         THEN CounterUpdate(contadores[coluna],
                                            ItemsExploded(ColData(chunk, coluna)))
                         ELSE contadores[coluna]]
                   /\ pc' = "lendo"
                   /\ UNCHANGED resultado
    /\ UNCHANGED <<impl, fonte, chunksize, colunas_analise, filtrar,
                   colunas_existentes, contagem_sigiloso, linhas_processadas,
                   tokVars, tabVars, mainVars, execVars, pyVars, concVars>>

\* only the columns found in the header get an entry, without a
\* 'contagem_sigiloso' key
Finalizar_output ==
    /\ pc = "lendo"
    /\ impl = "output"
    /\ pos = Len(fonte.rows)
    /\ \E ordens \in EscolhasDeOrdem(Range(colunas_existentes), contadores) :
           resultado' = Some(
               [coluna \in Range(colunas_existentes) |->
                   IF DOMAIN contadores[coluna] = {}
                   THEN [contagens |-> SerieVazia, total_ocorrencias |-> 0]
                   ELSE [contagens |-> Serie(contadores[coluna], ordens[coluna]),
                         total_ocorrencias |-> SomaContador(contadores[coluna])]])
    /\ pc' = "fim"
    /\ UNCHANGED <<impl, fonte, chunksize, colunas_analise, filtrar,
                   colunas_existentes, contadores, contagem_sigiloso, linhas_lidas,
                   linhas_processadas, pos, tokVars, tabVars, mainVars, execVars, pyVars, concVars>>

(***************************************************************************)
(* The presentation table.                                                 *)
(***************************************************************************)
DigitChars == <<"0", "1", "2", "3", "4", "5", "6", "7", "8", "9">>

\* str(n) for n >= 0
RECURSIVE IntStr(_)
IntStr(n) ==
    IF n < 10 THEN <<DigitChars[n + 1]>>
    ELSE IntStr(n \div 10) \o <<DigitChars[(n % 10) + 1]>>

\* num / den rounded to the nearest integer, ties to even
RoundHalfEven(num, den) ==
    LET q == num \div den
        r == num % den
    IN  IF 2 * r > den THEN q + 1
        ELSE IF 2 * r < den THEN q
        ELSE IF q % 2 = 0 THEN q ELSE q + 1

\* '{:.2f}%'.format(h / 100) for a whole number h of hundredths
DuasCasas(h) ==
    IntStr(h \div 100) \o <<".">> \o
    <<DigitChars[((h % 100) \div 10) + 1], DigitChars[(h % 10) + 1], "%">>

\* f'{contagem / total_ocorrencias * 100:.2f}%'
Percentual(contagem, total_ocorrencias) ==
    DuasCasas(RoundHalfEven(contagem * 10000, total_ocorrencias))

OutrosPrefixo == <<"O", "u", "t", "r", "o", "s", " ", "(">>
OutrosSufixo == <<" ", "i", "t", "e", "n", "s", ")">>
\* f'Outros ({k} itens)'
OutrosItem(k) == OutrosPrefixo \o IntStr(k) \o OutrosSufixo
SigilosoItem == <<"S", "i", "g", "i", "l", "o", "s", "o">>
TotalGeralItem == <<"T", "O", "T", "A", "L", " ", "G", "E", "R", "A", "L">>
TotalItem == <<"T", "O", "T", "A", "L">>
CemPorCento == <<"1", "0", "0", ".", "0", "0", "%">>

Linha(item, contagem, percentual) ==
    [Item |-> item, Contagem |-> contagem, Percentual |-> percentual]

\* the formatter returns None / a DataFrame
SemTabela == [none |-> TRUE, linhas |-> <<>>]
Tabela(linhas) == [none |-> FALSE, linhas |-> linhas]

\* dados_contagem.get(chave, 0)
GetOuZero(dados_contagem, chave) ==
    IF chave \in DOMAIN dados_contagem THEN dados_contagem[chave] ELSE 0

\* contagens.head(top_n), top_n >= 0
SerieHead(contagens, n) == SubSeq(contagens, 1, Min(n, Len(contagens)))

\* top_n_contagens.sum()
RECURSIVE SerieSum(_)
SerieSum(serie) ==
    IF serie = <<>> THEN 0 ELSE Head(serie).Contagem + SerieSum(Tail(serie))

\* a variant of the remainder taken from the grand total
ContagemOutrosDoTotal(total_ocorrencias, contagem_sigiloso_, soma_top_n) ==
    total_ocorrencias - soma_top_n

\* contagem_outros = (total_ocorrencias - contagem_sigiloso) - soma_top_n
ContagemOutros(total_ocorrencias, contagem_sigiloso_, soma_top_n) ==
    LET total_validas == total_ocorrencias - contagem_sigiloso_
    IN  total_validas - soma_top_n

\* a variant that asks for more than top_n + 1 distinct items
TemOutrosMaisUm(total_itens_unicos_validos, n, contagem_outros) ==
    total_itens_unicos_validos > n + 1 /\ contagem_outros > 0

\* if total_itens_unicos_validos > top_n and contagem_outros > 0
TemOutros(total_itens_unicos_validos, n, contagem_outros) ==
    total_itens_unicos_validos > n /\ contagem_outros > 0

\* a variant that puts the confidential row before the Outros row
LinhasAteSigilosoTrocadas(contagens, total_ocorrencias, contagem_sigiloso_, n) ==
    LET top_n_contagens == SerieHead(contagens, n)
        contagem_outros ==
            ContagemOutros(total_ocorrencias, contagem_sigiloso_, SerieSum(top_n_contagens))
    IN  [i \in 1..Len(top_n_contagens) |->
            Linha(top_n_contagens[i].Item, top_n_contagens[i].Contagem,
                  Percentual(top_n_contagens[i].Contagem, total_ocorrencias))]
        \o (IF contagem_sigiloso_ > 0
            THEN <<Linha(SigilosoItem, contagem_sigiloso_,
                         Percentual(contagem_sigiloso_, total_ocorrencias))>>
            ELSE <<>>)
        \o (IF TemOutros(Len(contagens), n, contagem_outros)
            THEN <<Linha(OutrosItem(Len(contagens) - n), contagem_outros,
                         Percentual(contagem_outros, total_ocorrencias))>>
            ELSE <<>>)

\* a variant that takes the percentages over the non-confidential total
LinhasAteSigilosoSobreValidas(contagens, total_ocorrencias, contagem_sigiloso_, n) ==
    LET total_validas == total_ocorrencias - contagem_sigiloso_
        base == IF total_validas > 0 THEN total_validas ELSE total_ocorrencias
        top_n_contagens == SerieHead(contagens, n)
        contagem_outros ==
            ContagemOutros(total_ocorrencias, contagem_sigiloso_, SerieSum(top_n_contagens))
    IN  [i \in 1..Len(top_n_contagens) |->
            Linha(top_n_contagens[i].Item, top_n_contagens[i].Contagem,
                  Percentual(top_n_contagens[i].Contagem, base))]
        \o (IF TemOutros(Len(contagens), n, contagem_outros)
            THEN <<Linha(OutrosItem(Len(contagens) - n), contagem_outros,
                         Percentual(contagem_outros, base))>>
            ELSE <<>>)
        \o (IF contagem_sigiloso_ > 0
            THEN <<Linha(SigilosoItem, contagem_sigiloso_,
                         Percentual(contagem_sigiloso_, base))>>
            ELSE <<>>)

\* df_tabela before the total row: the Top-N rows, then the Outros row, then
\* the Sigiloso row (the same statements in relatorio_export.py and in
\* gerar_relatorio_analise_cnj.py)
LinhasAteSigiloso(contagens, total_ocorrencias, contagem_sigiloso_, n) ==
    LET total_itens_unicos_validos == Len(contagens)
        top_n_contagens == SerieHead(contagens, n)
        soma_top_n == SerieSum(top_n_contagens)
        contagem_outros ==
            ContagemOutros(total_ocorrencias, contagem_sigiloso_, soma_top_n)
        df_top == [i \in 1..Len(top_n_contagens) |->
                      Linha(top_n_contagens[i].Item, top_n_contagens[i].Contagem,
                            Percentual(top_n_contagens[i].Contagem, total_ocorrencias))]
        com_outros ==
            IF TemOutros(total_itens_unicos_validos, n, contagem_outros)
            THEN df_top \o <<Linha(OutrosItem(total_itens_unicos_validos - n),
                                   contagem_outros,
                                   Percentual(contagem_outros, total_ocorrencias))>>
            ELSE df_top
    IN  IF contagem_sigiloso_ > 0
        THEN com_outros \o <<Linha(SigilosoItem, contagem_sigiloso_,
                                   Percentual(contagem_sigiloso_, total_ocorrencias))>>
        ELSE com_outros

TotalGeralLinha(total_ocorrencias) ==
    Linha(TotalGeralItem, total_ocorrencias, CemPorCento)

\* formatar_tabela_analise of relatorio_export.py
formatar_tabela_analise_export(dados_contagem, n) ==
    LET total_ocorrencias == GetOuZero(dados_contagem, "total_ocorrencias")
        contagem_sigiloso_ == GetOuZero(dados_contagem, "contagem_sigiloso")
    IN  IF total_ocorrencias = 0 \/ "contagens" \notin DOMAIN dados_contagem
        THEN SemTabela
        ELSE LET df_tabela == LinhasAteSigiloso(dados_contagem.contagens,
                                  total_ocorrencias, contagem_sigiloso_, n)
                 com_total == IF df_tabela # <<>>
                              THEN df_tabela \o <<TotalGeralLinha(total_ocorrencias)>>
                              ELSE df_tabela
             IN  IF com_total # <<>> THEN Tabela(com_total) ELSE SemTabela

\* formatar_tabela_analise of gerar_relatorio_analise_cnj.py
formatar_tabela_analise(dados_contagem, n) ==
    LET total_ocorrencias == GetOuZero(dados_contagem, "total_ocorrencias")
        contagem_sigiloso_ == GetOuZero(dados_contagem, "contagem_sigiloso")
    IN  IF total_ocorrencias = 0 \/ "contagens" \notin DOMAIN dados_contagem
        THEN SemTabela
        ELSE LET df_tabela == LinhasAteSigiloso(dados_contagem.contagens,
                                  total_ocorrencias, contagem_sigiloso_, n)
                 com_total == IF df_tabela # <<>> \/ contagem_sigiloso_ > 0
                              THEN df_tabela \o <<TotalGeralLinha(total_ocorrencias)>>
                              ELSE df_tabela
             IN  IF com_total # <<>> THEN Tabela(com_total) ELSE SemTabela

\* the table exibir_resultados of analise_output.py prints for one column
exibir_resultados_tabela(dados_contagem, n) ==
    LET contagens_completas == dados_contagem.contagens
        total_ocorrencias == dados_contagem.total_ocorrencias
        total_itens_unicos == Len(contagens_completas)
    IN  IF total_ocorrencias = 0 \/ contagens_completas = <<>>
        THEN SemTabela
        ELSE LET top_n_contagens == SerieHead(contagens_completas, n)
                 soma_top_n == SerieSum(top_n_contagens)
                 contagem_outros == total_ocorrencias - soma_top_n
                 df_top == [i \in 1..Len(top_n_contagens) |->
                               Linha(top_n_contagens[i].Item, top_n_contagens[i].Contagem,
                                     Percentual(top_n_contagens[i].Contagem,
                                                total_ocorrencias))]
                 com_outros ==
                     IF total_itens_unicos > n /\ contagem_outros > 0
                     THEN df_top \o <<Linha(OutrosItem(total_itens_unicos - n),
                                            contagem_outros,
                                            Percentual(contagem_outros, total_ocorrencias))>>
                     ELSE df_top
             IN  Tabela(com_outros \o <<Linha(TotalItem, total_ocorrencias, CemPorCento)>>)

\* the formatter is handed the returned value only: the parameters and locals
\* of the scan call that produced it are out of scope by then
FrameDescartado ==
    /\ fonte' = ArquivoAusente
    /\ chunksize' = 1
    /\ colunas_analise' = <<>>
    /\ filtrar' = FALSE
    /\ colunas_existentes' = <<>>
    /\ contadores' = <<>>
    /\ contagem_sigiloso' = <<>>
    /\ linhas_lidas' = 0
    /\ linhas_processadas' = 0
    /\ pos' = 0

\* main of gerar_relatorio_analise_cnj.py formats a column of a scan result
Formatar_gerar ==
    /\ pc = "fim"
    /\ impl = "gerar"
    /\ ~resultado.none
    /\ \E coluna \in DOMAIN resultado.dados : \E n \in 0..MaxTopN :
           /\ campo' = coluna
           /\ top_n' = n
           /\ tabela' = formatar_tabela_analise(resultado.dados[coluna], n)
    /\ pc' = "tabela"
    /\ FrameDescartado
    /\ UNCHANGED <<impl, resultado, tokVars, mainVars, execVars, pyVars, concVars>>

\* main_analise of analise_output_sus.py exports through relatorio_export
Formatar_export ==
    /\ pc = "fim"
    /\ impl = "sus"
    /\ ~resultado.none
    /\ \E coluna \in DOMAIN resultado.dados : \E n \in 0..MaxTopN :
           /\ campo' = coluna
           /\ top_n' = n
           /\ tabela' = formatar_tabela_analise_export(resultado.dados[coluna], n)
    /\ pc' = "tabela"
    /\ FrameDescartado
    /\ UNCHANGED <<impl, resultado, tokVars, mainVars, execVars, pyVars, concVars>>

\* main_analise of analise_output.py prints through exibir_resultados
Exibir_output ==
    /\ pc = "fim"
    /\ impl = "output"
    /\ ~resultado.none
    /\ \E coluna \in DOMAIN resultado.dados : \E n \in 0..MaxTopN :
           /\ campo' = coluna
           /\ top_n' = n
           /\ tabela' = exibir_resultados_tabela(resultado.dados[coluna], n)
    /\ pc' = "tabela"
    /\ FrameDescartado
    /\ UNCHANGED <<impl, resultado, tokVars, mainVars, execVars, pyVars, concVars>>

Next ==
    \/ Abrir_gerar \/ Chunk_gerar \/ Finalizar_gerar \/ Formatar_gerar
    \/ Abrir_sus \/ Chunk_sus \/ Finalizar_sus \/ Formatar_export
    \/ Abrir_output \/ Chunk_output \/ Finalizar_output \/ Exibir_output

Spec == Init /\ [][Next]_vars

(***************************************************************************)
(* Reference quantities of a scan, taken from the whole source at once.    *)
(***************************************************************************)
\* the scan has returned and its frame is still in view
Terminou == pc = "fim"
\* a scan result is in hand
TemResultado == pc \in {"fim", "tabela"} /\ ~resultado.none

\* the rows that count: all of them, or those whose filter cell names a
\* public entity when the filter is active
LinhasContadas == IF filtrar THEN FiltrarEntes(fonte.rows) ELSE fonte.rows

\* every token of the column's cells over the rows that count, in order
RECURSIVE TokensDe(_, _)
TokensDe(linhas, coluna) ==
    IF linhas = <<>> THEN <<>>
    ELSE parse_multi_valor(Head(linhas)[coluna]) \o TokensDe(Tail(linhas), coluna)

Ocorrencias(toks, t) == Cardinality({i \in 1..Len(toks) : toks[i] = t})
OcorrenciasSigilosas(toks) ==
    Cardinality({i \in 1..Len(toks) : Upper(toks[i]) = SIGILOSO})

\* the count a Series stores under key t (0 when t is no key)
Guardado(contagens, t) ==
    IF \E i \in 1..Len(contagens) : contagens[i].Item = t
    THEN contagens[CHOOSE i \in 1..Len(contagens) : contagens[i].Item = t].Contagem
    ELSE 0
ChavesUnicas(contagens) ==
    \A i, j \in 1..Len(contagens) : contagens[i].Item = contagens[j].Item => i = j
Chaves(contagens) == {contagens[i].Item : i \in 1..Len(contagens)}

\* C1: in every result a scan with a confidential tally returns, each
\* column's total_ocorrencias equals the sum of its 'contagens' plus its
\* contagem_sigiloso.
C1_TotalIsSumPlusConfidential ==
    (TemResultado /\ impl \in {"gerar", "sus"}) =>
        \A coluna \in DOMAIN resultado.dados :
            LET d == resultado.dados[coluna]
            IN  d.total_ocorrencias = SerieSum(d.contagens) + d.contagem_sigiloso

\* two batches, filter active, named and confidential tokens in one column
C1_Witness ==
    /\ Terminou
    /\ ~resultado.none
    /\ impl = "gerar"
    /\ filtrar
    /\ chunksize = 1
    /\ Len(fonte.rows) = 2
    /\ resultado.dados["F"].total_ocorrencias = 4
    /\ resultado.dados["F"].contagem_sigiloso = 1

\* C2: after a scan, for every analysed column of the header, the count kept
\* under each token is the number of times exactly that token (original
\* casing, repeats inside a cell included) occurs in the column over the rows
\* that count, tokens that upper-case to SIGILOSO being kept in
\* contagem_sigiloso instead, and the total is the number of all tokens.
C2_CountsAreOccurrences ==
    (Terminou /\ ~resultado.none /\ impl \in {"gerar", "sus"}) =>
        \A coluna \in Range(colunas_analise) \cap fonte.header :
            LET d == resultado.dados[coluna]
                toks == TokensDe(LinhasContadas, coluna)
            IN  /\ ChavesUnicas(d.contagens)
                /\ \A t \in Range(toks) \cup Chaves(d.contagens) :
                       Guardado(d.contagens, t) =
                           (IF Upper(t) = SIGILOSO THEN 0 ELSE Ocorrencias(toks, t))
                /\ d.contagem_sigiloso = OcorrenciasSigilosas(toks)
                /\ d.total_ocorrencias = Len(toks)

\* cells {A, B} and {A, SIGILOSO}: A twice, B once, one confidential, total 4
C2_Witness ==
    /\ Terminou
    /\ ~resultado.none
    /\ impl = "sus"
    /\ Len(fonte.rows) = 2
    /\ "F" \in fonte.header
    /\ fonte.rows[1]["F"] = Txt(<<"{", "A", ",", " ", "B", "}">>)
    /\ Guardado(resultado.dados["F"].contagens, <<"A">>) = 2
    /\ Guardado(resultado.dados["F"].contagens, <<"B">>) = 1
    /\ resultado.dados["F"].contagem_sigiloso = 1
    /\ resultado.dados["F"].total_ocorrencias = 4

\* C3: no key of any column's distribution upper-cases to SIGILOSO, in the
\* result of any of the three scans, and no Top-N row of the table shows it.
C3_NoConfidentialKey ==
    /\ TemResultado =>
           \A coluna \in DOMAIN resultado.dados :
               \A t \in Chaves(resultado.dados[coluna].contagens) :
                   Upper(Strip(t)) # SIGILOSO
    /\ (pc = "tabela" /\ ~tabela.none) =>
           \A i \in 1..Min(top_n, Len(resultado.dados[campo].contagens)) :
               Upper(Strip(tabela.linhas[i].Item)) # SIGILOSO

(***************************************************************************)
(* The chunk loops as functions of the batch size.                         *)
(***************************************************************************)
ExistentesDe(header) == SelectSeq(colunas_analise, LAMBDA col : col \in header)

\* the loop of analisar_frequencias (gerar_relatorio_analise_cnj.py) over rows
\* in batches of cs: falha when a pass ends in the NameError
RECURSIVE LoopGerar(_, _, _, _, _)
LoopGerar(rows, cs, filt, cols, acc) ==
    IF rows = <<>> THEN acc
    ELSE LET chunk == SubSeq(rows, 1, Min(cs, Len(rows)))
             rest == SubSeq(rows, Len(chunk) + 1, Len(rows))
             chunk_processar == IF filt THEN FiltrarEntes(chunk) ELSE chunk
             um == [coluna \in cols |->
                       ContarColuna([contador |-> acc.cont[coluna],
                                     sigiloso |-> acc.sig[coluna]],
                                    ColData(chunk_processar, coluna))]
         IN  IF chunk_processar = <<>> THEN LoopGerar(rest, cs, filt, cols, acc)
             ELSE IF \A coluna \in cols : ColData(chunk_processar, coluna) = <<>>
             THEN [acc EXCEPT !.falha = TRUE]
             ELSE LoopGerar(rest, cs, filt, cols,
                            [falha |-> FALSE,
                             cont |-> [coluna \in cols |-> um[coluna].contador],
                             sig |-> [coluna \in cols |-> um[coluna].sigiloso]])

\* the loop of analisar_frequencias (analise_output.py)
RECURSIVE LoopOutput(_, _, _, _)
LoopOutput(rows, cs, cols, acc) ==
    IF rows = <<>> THEN acc
    ELSE LET chunk == SubSeq(rows, 1, Min(cs, Len(rows)))
             rest == SubSeq(rows, Len(chunk) + 1, Len(rows))
         IN  IF \A coluna \in cols : ColData(chunk, coluna) = <<>>
             THEN [acc EXCEPT !.falha = TRUE]
             ELSE LoopOutput(rest, cs, cols,
                             [acc EXCEPT !.cont = [coluna \in cols |->
                                  CounterUpdate(acc.cont[coluna],
                                                ItemsExploded(ColData(chunk, coluna)))]])

\* what the scan of the current source accumulates with batch size cs
Acumulado(cs) ==
    LET cols == Range(ExistentesDe(fonte.header))
        zero == [falha |-> FALSE,
                 cont |-> [coluna \in cols |-> EmptyCounter],
                 sig |-> [coluna \in cols |-> 0]]
    IN  IF impl = "gerar"
        THEN LoopGerar(fonte.rows, cs, filtrar /\ ColunaFiltro \in fonte.header,
                       cols, zero)
        ELSE IF fonte.rows = <<>> THEN [zero EXCEPT !.falha = TRUE]
        ELSE LoopOutput(fonte.rows, cs, cols, zero)

SemResultadoCom(cs) ==
    \/ ~fonte.existe
    \/ ExistentesDe(fonte.header) = <<>>
    \/ Acumulado(cs).falha

\* the outcome of the run in hand equals the outcome with batch size cs
MesmoDesfecho(cs) ==
    /\ resultado.none <=> SemResultadoCom(cs)
    /\ ~resultado.none =>
           LET a == Acumulado(cs)
           IN  \A coluna \in Range(ExistentesDe(fonte.header)) :
                   /\ contadores[coluna] = a.cont[coluna]
                   /\ impl = "gerar" => contagem_sigiloso[coluna] = a.sig[coluna]

\* the step-by-step scan and the loop function agree on the batch size used
LoopConcorda ==
    (Terminou /\ impl \in {"gerar", "output"}) => MesmoDesfecho(chunksize)

\* C4: for every source and every pair of batch sizes, analisar_frequencias
\* (both scripts) ends the same way: no result in both runs, or the same
\* distributions, totals and confidential counts.
C4_BatchSizeIndependent ==
    (Terminou /\ impl \in {"gerar", "output"}) =>
        \A cs \in 1..MaxChunk : MesmoDesfecho(cs)

(***************************************************************************)
(* The table against the column result it was built from.                  *)
(***************************************************************************)
TemTabela == pc = "tabela" /\ ~tabela.none
DadosTabela == resultado.dados[campo]
SigilosoDe(d) == GetOuZero(d, "contagem_sigiloso")
\* number of Top-N rows
NTop == Min(top_n, Len(DadosTabela.contagens))
\* the rows of the table between the Top-N rows and the last row
Meio == SubSeq(tabela.linhas, NTop + 1, Len(tabela.linhas) - 1)
EhOutros(linha) ==
    /\ Len(linha.Item) > Len(OutrosPrefixo)
    /\ SubSeq(linha.Item, 1, Len(OutrosPrefixo)) = OutrosPrefixo
\* the Outros row sits right after the Top-N rows, when there is one
TemLinhaOutros == Meio # <<>> /\ EhOutros(Meio[1])
DepoisDeOutros == IF TemLinhaOutros THEN Tail(Meio) ELSE Meio

\* C8: for a column result with total_ocorrencias > 0 the formatter of
\* relatorio_export.py and of gerar_relatorio_analise_cnj.py returns, in this
\* order: the first top_n entries of the distribution, at most one Outros
\* row, a 'Sigiloso' row carrying contagem_sigiloso exactly when that count
\* is positive, and a last 'TOTAL GERAL' row with total_ocorrencias and
\* "100.00%"; also when the distribution is empty.
C8_RowOrder ==
    (pc = "tabela" /\ impl \in {"gerar", "sus"} /\ DadosTabela.total_ocorrencias > 0) =>
        /\ ~tabela.none
        /\ Len(tabela.linhas) >= NTop + 1
        /\ \A i \in 1..NTop :
               /\ tabela.linhas[i].Item = DadosTabela.contagens[i].Item
               /\ tabela.linhas[i].Contagem = DadosTabela.contagens[i].Contagem
        /\ IF SigilosoDe(DadosTabela) > 0
           THEN /\ Len(DepoisDeOutros) = 1
                /\ DepoisDeOutros[1].Item = SigilosoItem
                /\ DepoisDeOutros[1].Contagem = SigilosoDe(DadosTabela)
           ELSE DepoisDeOutros = <<>>
        /\ tabela.linhas[Len(tabela.linhas)] =
               Linha(TotalGeralItem, DadosTabela.total_ocorrencias, CemPorCento)

\* every occurrence is confidential: the table is Sigiloso, TOTAL GERAL
C8_Witness ==
    /\ pc = "tabela"
    /\ impl = "sus"
    /\ DadosTabela.contagens = <<>>
    /\ DadosTabela.contagem_sigiloso = 2
    /\ Len(tabela.linhas) = 2
    /\ tabela.linhas[1].Item = SigilosoItem
    /\ tabela.linhas[2].Item = TotalGeralItem

\* other = (total_ocorrencias - contagem_sigiloso) - sum of the first top_n counts
OutrosEsperado ==
    (DadosTabela.total_ocorrencias - SigilosoDe(DadosTabela))
        - SerieSum(SubSeq(DadosTabela.contagens, 1, NTop))

\* C9: the Outros row is emitted exactly when the number U of distinct tokens
\* exceeds top_n and other > 0; it carries the count other and the label
\* 'Outros (U - top_n itens)'.
C9_OtherRow ==
    (pc = "tabela" /\ impl \in {"gerar", "sus"} /\ DadosTabela.total_ocorrencias > 0) =>
        LET U == Len(DadosTabela.contagens)
        IN  /\ TemLinhaOutros <=> (U > top_n /\ OutrosEsperado > 0)
            /\ TemLinhaOutros =>
                   /\ Meio[1].Contagem = OutrosEsperado
                   /\ Meio[1].Item = OutrosItem(U - top_n)
            /\ U <= top_n =>
                   \A i \in 1..Len(tabela.linhas) : ~EhOutros(tabela.linhas[i])

\* {A: 2, B: 1}, one confidential, top_n = 1: the row 'Outros (1 itens)' with 1
C9_Witness ==
    /\ TemTabela
    /\ impl = "gerar"
    /\ top_n = 1
    /\ Len(DadosTabela.contagens) = 2
    /\ DadosTabela.contagem_sigiloso = 1
    /\ Len(tabela.linhas) = 4
    /\ tabela.linhas[2] = Linha(OutrosItem(1), 1, <<"2", "5", ".", "0", "0", "%">>)

\* C10: in the table of a column result a scan produced, with any
\* top_n >= 0, the counts of the rows before the last add up to the count of
\* the last (total) row.
C10_RowsReconcile ==
    TemTabela =>
        SerieSum(SubSeq(tabela.linhas, 1, Len(tabela.linhas) - 1))
            = tabela.linhas[Len(tabela.linhas)].Contagem

\* Top-N row, Outros row and Sigiloso row together make the total
C10_Witness ==
    /\ TemTabela
    /\ impl = "sus"
    /\ top_n = 1
    /\ Len(tabela.linhas) = 4
    /\ tabela.linhas[1].Contagem = 2
    /\ tabela.linhas[2].Contagem = 1
    /\ tabela.linhas[3].Contagem = 1
    /\ tabela.linhas[4].Contagem = 4

(***************************************************************************)
(* The percentages of the table.                                           *)
(***************************************************************************)
DigitoDe(c) == CHOOSE d \in 0..9 : DigitChars[d + 1] = c
EhDigito(c) == \E d \in 0..9 : DigitChars[d + 1] = c
\* the number a run of digits writes
RECURSIVE NumeroDe(_)
NumeroDe(ds) ==
    IF ds = <<>> THEN 0
    ELSE 10 * NumeroDe(SubSeq(ds, 1, Len(ds) - 1)) + DigitoDe(ds[Len(ds)])
\* the text is digits, a point, two digits and a percent sign
DuasCasasBemFormado(p) ==
    /\ Len(p) >= 5
    /\ p[Len(p)] = "%"
    /\ p[Len(p) - 3] = "."
    /\ \A i \in (1..(Len(p) - 4)) \cup {Len(p) - 2, Len(p) - 1} : EhDigito(p[i])
\* the hundredths of a percent the text writes
Centesimos(p) ==
    100 * NumeroDe(SubSeq(p, 1, Len(p) - 4)) + NumeroDe(SubSeq(p, Len(p) - 2, Len(p) - 1))
\* the text is count / total * 100 to the nearest hundredth
EhPercentualDe(p, contagem, total) ==
    /\ DuasCasasBemFormado(p)
    /\ LET erro == Centesimos(p) * total - contagem * 10000
       IN  2 * erro <= total /\ -2 * erro <= total

\* C11: in the table of formatar_tabela_analise (both formatters) every row
\* before the total row shows its count over the grand total
\* total_ocorrencias, confidential occurrences included, as a percentage with
\* two decimals, and the total row shows "100.00%".
C11_PercentOfGrandTotal ==
    (TemTabela /\ impl \in {"gerar", "sus"}) =>
        /\ \A i \in 1..(Len(tabela.linhas) - 1) :
               EhPercentualDe(tabela.linhas[i].Percentual, tabela.linhas[i].Contagem,
                              DadosTabela.total_ocorrencias)
        /\ tabela.linhas[Len(tabela.linhas)].Percentual = CemPorCento

\* {A: 2, B: 1}, one confidential, top_n = 1: 50.00%, 25.00%, 25.00%, 100.00%
C11_Witness ==
    /\ TemTabela
    /\ impl = "gerar"
    /\ top_n = 1
    /\ DadosTabela.total_ocorrencias = 4
    /\ DadosTabela.contagem_sigiloso = 1
    /\ Len(tabela.linhas) = 4
    /\ tabela.linhas[1].Percentual = <<"5", "0", ".", "0", "0", "%">>
    /\ tabela.linhas[2].Percentual = <<"2", "5", ".", "0", "0", "%">>
    /\ tabela.linhas[3].Percentual = <<"2", "5", ".", "0", "0", "%">>
    /\ tabela.linhas[4].Percentual = CemPorCento

(***************************************************************************)
(* The order of a distribution.                                            *)
(***************************************************************************)
NaoCrescente(contagens) ==
    \A i, j \in 1..Len(contagens) :
        i < j => contagens[i].Contagem >= contagens[j].Contagem

\* C12: in the result of every scan each column's distribution is in
\* non-increasing order of count, and no entry left out of the Top-N rows of
\* the table has a count greater than an entry shown in them.
C12_SortedDescending ==
    /\ TemResultado =>
           \A coluna \in DOMAIN resultado.dados :
               NaoCrescente(resultado.dados[coluna].contagens)
    /\ TemTabela =>
           \A i \in 1..NTop :
               \A j \in (NTop + 1)..Len(DadosTabela.contagens) :
                   tabela.linhas[i].Contagem >= DadosTabela.contagens[j].Contagem

\* A counted twice and B once: the table with top_n = 1 shows A and leaves B out
C12_Witness ==
    /\ TemTabela
    /\ top_n = 1
    /\ campo = "F"
    /\ Len(DadosTabela.contagens) = 2
    /\ DadosTabela.contagens[1].Contagem = 2
    /\ DadosTabela.contagens[2].Contagem = 1
    /\ tabela.linhas[1].Item = <<"A">>

(***************************************************************************)
(* Columns missing from the header.                                        *)
(***************************************************************************)
NenhumaColunaNoCabecalho == Range(colunas_analise) \cap fonte.header = {}

\* C13: when none of the requested columns is in the header, the scan (any
\* of the three) returns None, never a partial or all-zero result, also when
\* the filter column is in the header.
C13_NoAnalysableColumnsIsNone ==
    (Terminou /\ NenhumaColunaNoCabecalho) => resultado.none

\* the unfiltered scan of the source in hand, with the batch size in hand,
\* ends in the NameError
FalhaSemFiltro ==
    LET cols == Range(ExistentesDe(fonte.header))
    IN  LoopGerar(fonte.rows, chunksize, FALSE, cols,
                  [falha |-> FALSE,
                   cont |-> [coluna \in cols |-> EmptyCounter],
                   sig |-> [coluna \in cols |-> 0]]).falha

\* the column's result is the tally over all rows of the source
ContagemDeTodasAsLinhas(coluna) ==
    LET d == resultado.dados[coluna]
        toks == TokensDe(fonte.rows, coluna)
    IN  /\ \A t \in Range(toks) \cup Chaves(d.contagens) :
               Guardado(d.contagens, t) =
                   (IF Upper(t) = SIGILOSO THEN 0 ELSE Ocorrencias(toks, t))
        /\ d.contagem_sigiloso = OcorrenciasSigilosas(toks)
        /\ d.total_ocorrencias = Len(toks)

\* C14: an entity-scoped scan (analisar_frequencias with the filter asked for,
\* analisar_frequencias_entes_publicos) of a source whose header lacks the
\* filter column but holds an analysed column ends as the unfiltered scan of
\* that source ends: it does not fail for the missing column and it counts
\* every row.
C14_MissingFilterColumnDegrades ==
    (/\ Terminou
     /\ impl \in {"gerar", "sus"}
     /\ fonte.existe
     /\ ColunaFiltro \notin fonte.header
     /\ ~NenhumaColunaNoCabecalho) =>
        /\ resultado.none <=> FalhaSemFiltro
        /\ ~resultado.none =>
               \A coluna \in Range(colunas_analise) \cap fonte.header :
                   ContagemDeTodasAsLinhas(coluna)

\* C15: a scan that returns a result returns one entry for every requested
\* column; a column the header lacks has the empty distribution with total 0
\* (and confidential 0). For all three scans.
C15_EveryRequestedColumnHasEntry ==
    (Terminou /\ ~resultado.none) =>
        /\ DOMAIN resultado.dados = Range(colunas_analise)
        /\ \A coluna \in Range(colunas_analise) \ fonte.header :
               /\ resultado.dados[coluna].contagens = <<>>
               /\ resultado.dados[coluna].total_ocorrencias = 0
               /\ GetOuZero(resultado.dados[coluna], "contagem_sigiloso") = 0

\* C16: a column of the header for which the scan of
\* gerar_relatorio_analise_cnj.py saw no token (its cells null or blank, or
\* every row filtered out) has, in a result the scan does return, the empty
\* distribution with total_ocorrencias 0 and contagem_sigiloso 0, and the
\* formatter returns None for such a column.
C16_ZeroTokenField ==
    /\ (Terminou /\ impl = "gerar") =>
           \A coluna \in Range(colunas_analise) \cap fonte.header :
               TokensDe(LinhasContadas, coluna) = <<>> =>
                   /\ ~resultado.none
                   /\ resultado.dados[coluna] = DadosVazios
    /\ (pc = "tabela" /\ impl \in {"gerar", "sus"}
            /\ DadosTabela.total_ocorrencias = 0) => tabela.none

(***************************************************************************)
(* The scans as functions of their arguments: what one call returns.  The  *)
(* order among equal counts is left open, hence a set of results.          *)
(***************************************************************************)
AcumuladorZero(cols) ==
    [falha |-> FALSE,
     cont |-> [coluna \in cols |-> EmptyCounter],
     sig |-> [coluna \in cols |-> 0]]

\* list(set(colunas_analise + [coluna_natjur_passivo])) for the argument cols
ColunasParaLerDe(cols) ==
    cols \o (IF ColunaFiltro \in Range(cols) THEN <<>> ELSE <<ColunaFiltro>>)

\* the loop of analisar_frequencias_entes_publicos over rows in batches of cs;
\* lidas are the analysed columns that were read
RECURSIVE LoopSus(_, _, _, _)
LoopSus(rows, cs, lidas, acc) ==
    IF rows = <<>> THEN acc
    ELSE LET chunk == SubSeq(rows, 1, Min(cs, Len(rows)))
             rest == SubSeq(rows, Len(chunk) + 1, Len(rows))
             chunk_filtrado_inicial == FiltrarEntes(chunk)
             um == [coluna \in lidas |->
                       ContarColuna([contador |-> acc.cont[coluna],
                                     sigiloso |-> acc.sig[coluna]],
                                    ColData(chunk_filtrado_inicial, coluna))]
         IN  IF chunk_filtrado_inicial = <<>> THEN LoopSus(rest, cs, lidas, acc)
             ELSE IF \A coluna \in lidas : ColData(chunk_filtrado_inicial, coluna) = <<>>
             THEN [acc EXCEPT !.falha = TRUE]
             ELSE LoopSus(rest, cs, lidas,
                     [falha |-> FALSE,
                      cont |-> [coluna \in DOMAIN acc.cont |->
                                   IF coluna \in lidas THEN um[coluna].contador
                                   ELSE acc.cont[coluna]],
                      sig |-> [coluna \in DOMAIN acc.sig |->
                                   IF coluna \in lidas THEN um[coluna].sigiloso
                                   ELSE acc.sig[coluna]]])

\* analisar_frequencias(caminho_csv, cols, filt, ...) of
\* gerar_relatorio_analise_cnj.py with batch size cs
ResultadosGerar(f, cols, filt, cs) ==
    LET existentes == SelectSeq(cols, LAMBDA col : col \in f.header)
        a == LoopGerar(f.rows, cs, filt /\ ColunaFiltro \in f.header,
                       Range(existentes), AcumuladorZero(Range(existentes)))
    IN  IF ~f.existe \/ existentes = <<>> THEN {None}
        ELSE IF a.falha THEN {None}
        ELSE {Some([coluna \in Range(cols) |->
                       IF coluna \notin Range(existentes) THEN DadosVazios
                       ELSE DadosColuna(a.cont[coluna], a.sig[coluna], o[coluna])]) :
                 o \in EscolhasDeOrdem(Range(existentes), a.cont)}

\* analisar_frequencias_entes_publicos(caminho_csv, cols, ...) with batch size cs
ResultadosSus(f, cols, cs) ==
    LET existentes == SelectSeq(ColunasParaLerDe(cols), LAMBDA col : col \in f.header)
        lidas == Range(cols) \cap Range(existentes)
        a == LoopSus(f.rows, cs, lidas, AcumuladorZero(Range(cols)))
    IN  IF ~f.existe \/ existentes = <<>> \/ ColunaFiltro \notin Range(existentes)
        THEN {None}
        ELSE IF a.falha THEN {None}
        ELSE {Some([coluna \in Range(cols) |->
                       IF coluna \notin f.header THEN DadosVazios
                       ELSE DadosColuna(a.cont[coluna], a.sig[coluna], o[coluna])]) :
                 o \in EscolhasDeOrdem(Range(cols), a.cont)}

\* analisar_frequencias(caminho_csv, cols) of analise_output.py with batch size cs
ResultadosOutput(f, cols, cs) ==
    LET existentes == SelectSeq(cols, LAMBDA col : col \in f.header)
        a == LoopOutput(f.rows, cs, Range(existentes), AcumuladorZero(Range(existentes)))
    IN  IF ~f.existe \/ existentes = <<>> THEN {None}
        ELSE IF f.rows = <<>> \/ a.falha THEN {None}
        ELSE {Some([coluna \in Range(existentes) |->
                       IF DOMAIN a.cont[coluna] = {}
                       THEN [contagens |-> SerieVazia, total_ocorrencias |-> 0]
                       ELSE [contagens |-> Serie(a.cont[coluna], o[coluna]),
                             total_ocorrencias |-> SomaContador(a.cont[coluna])]]) :
                 o \in EscolhasDeOrdem(Range(existentes), a.cont)}

ResultadosDoScan(prog, f, cols, filt, cs) ==
    IF prog = "gerar" THEN ResultadosGerar(f, cols, filt, cs)
    ELSE IF prog = "sus" THEN ResultadosSus(f, cols, cs)
    ELSE ResultadosOutput(f, cols, cs)

\* the scan taken batch by batch returns what the function form returns
ScanConcorda ==
    Terminou =>
        resultado \in ResultadosDoScan(impl, fonte, colunas_analise, filtrar, chunksize)

(***************************************************************************)
(* main of gerar_relatorio_analise_cnj.py, main_analise of                 *)
(* analise_output_sus.py and of analise_output.py.                         *)
(***************************************************************************)
CHUNKSIZE_ANALISE == 100000
TOP_N == 10
COLUNAS_ANALISE == <<"F", "G">>

\* the files a run may meet: missing (or removed after the glob), without any
\* analysed column, one good row against a public entity, one row of missing
\* cells only, and one good row in a file without the filter column
FSemColunas == [existe |-> TRUE, header |-> {}, rows |-> <<>>]
FBoa ==
    [existe |-> TRUE, header |-> {"F", "G"},
     rows |-> <<[c \in {"F", "G"} |->
                    IF c = "F"
                    THEN Txt(<<"{", "A", ",", " ", "S", "I", "G", "I", "L", "O", "S", "O", "}">>)
                    ELSE Txt(<<"B">>)]>>]
FNula ==
    [existe |-> TRUE, header |-> {"F", "G"},
     rows |-> <<[c \in {"F", "G"} |-> NaN]>>]
FSemFiltro ==
    [existe |-> TRUE, header |-> {"F"},
     rows |-> <<[c \in {"F"} |->
                    Txt(<<"{", "A", ",", " ", "S", "I", "G", "I", "L", "O", "S", "O", "}">>)]>>]
FontesMain == {ArquivoAusente, FSemColunas, FBoa, FNula, FSemFiltro}

\* file stems of the regional folder: T, U and dados_saude_T
PrefixoDadosSaude == <<"d", "a", "d", "o", "s", "_", "s", "a", "u", "d", "e", "_">>
Stems == {<<"T">>, <<"U">>, PrefixoDadosSaude \o <<"T">>}
\* the folder: some files by stem
Diretorios ==
    UNION {[S -> FontesMain] : S \in {X \in SUBSET Stems : Cardinality(X) <= MaxRegionais}}

\* code point order of the characters of the stems
OrdemChars == <<"T", "U", "_", "a", "d", "e", "o", "s", "u">>
Ord(c) == CHOOSE k \in 1..Len(OrdemChars) : OrdemChars[k] = c
RECURSIVE MenorTexto(_, _)
MenorTexto(a, b) ==
    IF b = <<>> THEN FALSE
    ELSE IF a = <<>> THEN TRUE
    ELSE IF Head(a) = Head(b) THEN MenorTexto(Tail(a), Tail(b))
    ELSE Ord(Head(a)) < Ord(Head(b))
\* sorted(list(PASTA_DADOS_REGIONAIS.glob("*.csv")))
Sorted(S) ==
    CHOOSE q \in [1..Cardinality(S) -> S] :
        \A i, j \in 1..Cardinality(S) : i < j => MenorTexto(q[i], q[j])

\* texto.replace(velho, '')
RECURSIVE ReplaceVazio(_, _)
ReplaceVazio(texto, velho) ==
    IF texto = <<>> THEN <<>>
    ELSE IF Len(texto) >= Len(velho) /\ SubSeq(texto, 1, Len(velho)) = velho
    THEN ReplaceVazio(SubSeq(texto, Len(velho) + 1, Len(texto)), velho)
    ELSE <<Head(texto)>> \o ReplaceVazio(Tail(texto), velho)

\* the context titles: the literal parts of the f-string and the name put in
TituloConsolidado(prog, m) ==
    [literal |-> IF prog = "gerar" THEN "Brasil Consolidado - "
                 ELSE IF prog = "sus" THEN "Brasil Consolidado (vs Entes Publicos)"
                 ELSE "Resultados Consolidados - Brasil",
     nome |-> <<>>,
     sufixo |-> IF prog = "gerar" THEN m ELSE ""]
TituloRegional(prog, m, stem) ==
    [literal |-> IF prog = "output" THEN "Resultados Regionais - " ELSE "Regional ",
     nome |-> ReplaceVazio(stem, PrefixoDadosSaude),
     sufixo |-> IF prog = "gerar" THEN m
                ELSE IF prog = "sus" THEN " (vs Entes Publicos)" ELSE ""]

\* dict[titulo] = valor on a dict kept as a sequence of entries in insertion order
DictSet(d, titulo, valor) ==
    IF \E i \in 1..Len(d) : d[i].titulo = titulo
    THEN [i \in 1..Len(d) |->
             IF d[i].titulo = titulo THEN [titulo |-> titulo, valor |-> valor] ELSE d[i]]
    ELSE Append(d, [titulo |-> titulo, valor |-> valor])

\* "if resultados:" on what a scan returned (None and {} are false)
Verdadeiro(r) == ~r.none /\ DOMAIN r.dados # {}

\* a variant of the export test that wants more than one context
TemResultadosVarios(rg) == Len(rg) > 1

\* "if resultados_todas_analises:" / "if resultados_gerais:"
TemResultados(rg) == rg # <<>>

\* a variant of the loop that gives up after a scan without result
FaseAposScanAborta(r) == IF r.none THEN "abortado" ELSE "regionais"

\* the for loop over arquivos_regionais goes on whatever the scan returned:
\* the else branch only logs
FaseAposScan(r) == "regionais"

\* analisar_frequencias of each program on each file a run may meet, without
\* and with the filter (analyze_only_public_entities; analise_output_sus.py
\* always filters, analise_output.py never does); the files do not change
\* during a run, so the run starts with this table in retornos
Programas == {"gerar", "sus", "output"}
ScanDe ==
    [prog \in Programas, f \in FontesMain, filt \in BOOLEAN |->
        ResultadosDoScan(prog, f, COLUNAS_ANALISE, filt, CHUNKSIZE_ANALISE)]

InitMain ==
    /\ programa \in Programas
    /\ consolidado \in FontesMain
    /\ regionais \in Diretorios
    /\ arquivos_regionais = <<>>
    /\ fase = "consolidado"
    /\ modo = (IF programa = "sus" THEN "entes" ELSE "geral")
    /\ indice = 0
    /\ resultados_gerais = <<>>
    /\ varridos = <<>>
    /\ exibidos = <<>>
    /\ exportacoes = <<>>
    /\ retornos = ScanDe
    /\ TokIdle
    /\ ScanIdle
    /\ ExecIdle
    /\ PyIdle
    /\ ConcIdle

\* what main does with the value a scan returned: keep it under its title
\* (gerar_relatorio_analise_cnj.py, analise_output_sus.py) or print it
\* (analise_output.py); a value that is false is only logged
Guardar(titulo, arquivo, r) ==
    /\ varridos' = Append(varridos, [arquivo |-> arquivo, modo |-> modo, retorno |-> r])
    /\ IF ~Verdadeiro(r)
       THEN UNCHANGED <<resultados_gerais, exibidos>>
       ELSE IF programa = "output"
       THEN /\ exibidos' = Append(exibidos, [titulo |-> titulo, valor |-> r, top_n |-> TOP_N])
            /\ UNCHANGED resultados_gerais
       ELSE /\ resultados_gerais' = DictSet(resultados_gerais, titulo, r)
            /\ UNCHANGED exibidos

\* the scan of the consolidated file, then the glob of the regional folder
\* (main of gerar_relatorio_analise_cnj.py globs once, in the general pass)
M_Consolidado ==
    /\ fase = "consolidado"
    /\ \E r \in retornos[programa, consolidado, modo = "entes"] :
           Guardar(TituloConsolidado(programa, modo), <<>>, r)
    /\ arquivos_regionais' =
           (IF programa = "gerar" /\ modo = "entes" THEN arquivos_regionais
            ELSE Sorted(DOMAIN regionais))
    /\ fase' = "regionais"
    /\ indice' = 1
    /\ UNCHANGED <<programa, consolidado, regionais, retornos, modo, exportacoes,
                   tokVars, scanVars, tabVars, execVars, pyVars, concVars>>

\* one pass of the for loop over arquivos_regionais
M_Regional ==
    /\ fase = "regionais"
    /\ indice <= Len(arquivos_regionais)
    /\ LET caminho_csv == arquivos_regionais[indice]
       IN  \E r \in retornos[programa, regionais[caminho_csv], modo = "entes"] :
               /\ Guardar(TituloRegional(programa, modo, caminho_csv), caminho_csv, r)
               /\ fase' = FaseAposScan(r)
    /\ indice' = indice + 1
    /\ UNCHANGED <<programa, consolidado, regionais, retornos, arquivos_regionais, modo,
                   exportacoes, tokVars, scanVars, tabVars, execVars, pyVars, concVars>>

\* after the for loop: the entity pass (gerar_relatorio_analise_cnj.py), the
\* export test, or the end (analise_output.py)
M_ProximaFase ==
    /\ fase = "regionais"
    /\ indice > Len(arquivos_regionais)
    /\ IF programa = "gerar" /\ modo = "geral"
       THEN fase' = "consolidado" /\ modo' = "entes"
       ELSE IF programa = "output"
       THEN fase' = "concluido" /\ UNCHANGED modo
       ELSE fase' = "exportacao" /\ UNCHANGED modo
    /\ UNCHANGED <<programa, consolidado, regionais, retornos, arquivos_regionais, indice,
                   resultados_gerais, varridos, exibidos, exportacoes,
                   tokVars, scanVars, tabVars, execVars, pyVars, concVars>>

\* else: logger.warning("Nenhum resultado de analise foi gerado para exportar.")
M_NadaAExportar ==
    /\ fase = "exportacao"
    /\ ~TemResultados(resultados_gerais)
    /\ fase' = "concluido"
    /\ UNCHANGED <<programa, consolidado, regionais, retornos, arquivos_regionais, modo, indice,
                   resultados_gerais, varridos, exibidos, exportacoes,
                   tokVars, scanVars, tabVars, execVars, pyVars, concVars>>

\* a variant of the CSV exporter that lets what is raised while writing out
FaseAposExportarCSVPropaga(ok) == IF ok THEN "exportacao_pdf" ELSE "abortado"

\* exportar_analises_csv returns to main whether the writing went through or
\* raised: its try block ends in 'except Exception' that only logs
FaseAposExportarCSV(ok) == "exportacao_pdf"

\* exportar_analises_csv: the output folder exists (mkdir with exist_ok), and
\* whatever is raised while writing is caught and logged by the exporter
M_ExportarCSV ==
    /\ fase = "exportacao"
    /\ TemResultados(resultados_gerais)
    /\ \E ok \in BOOLEAN :
           /\ exportacoes' = Append(exportacoes,
                  [tipo |-> "csv", argumento |-> resultados_gerais, top_n |-> TOP_N,
                   ok |-> ok])
           /\ fase' = FaseAposExportarCSV(ok)
    /\ UNCHANGED <<programa, consolidado, regionais, retornos, arquivos_regionais, modo, indice,
                   resultados_gerais, varridos, exibidos, tokVars, scanVars, tabVars, execVars, pyVars, concVars>>

\* exportar_analises_pdf, called next whatever the CSV export did
M_ExportarPDF ==
    /\ fase = "exportacao_pdf"
    /\ \E ok \in BOOLEAN :
           exportacoes' = Append(exportacoes,
               [tipo |-> "pdf", argumento |-> resultados_gerais, top_n |-> TOP_N,
                ok |-> ok])
    /\ fase' = "concluido"
    /\ UNCHANGED <<programa, consolidado, regionais, retornos, arquivos_regionais, modo, indice,
                   resultados_gerais, varridos, exibidos, tokVars, scanVars, tabVars, execVars, pyVars, concVars>>

NextMain ==
    \/ M_Consolidado \/ M_Regional \/ M_ProximaFase
    \/ M_NadaAExportar \/ M_ExportarCSV \/ M_ExportarPDF

SpecMain == InitMain /\ [][NextMain]_vars

\* main is one sequential program: it keeps taking its next step
SpecMainFair == InitMain /\ [][NextMain]_vars /\ WF_vars(NextMain)

(***************************************************************************)
(* The runs of main.                                                       *)
(***************************************************************************)
\* the scans a run owes: the consolidated file and every file of the folder,
\* in each mode of the program
ScansDevidos(prog, dir) ==
    LET regs == Sorted(DOMAIN dir)
        passe(m) == <<[arquivo |-> <<>>, modo |-> m]>> \o
                    [i \in 1..Len(regs) |-> [arquivo |-> regs[i], modo |-> m]]
    IN  IF prog = "gerar" THEN passe("geral") \o passe("entes")
        ELSE IF prog = "sus" THEN passe("entes")
        ELSE passe("geral")
ScansFeitos == [i \in 1..Len(varridos) |-> [arquivo |-> varridos[i].arquivo, modo |-> varridos[i].modo]]
TituloDoScan(v) ==
    IF v.arquivo = <<>> THEN TituloConsolidado(programa, v.modo)
    ELSE TituloRegional(programa, v.modo, v.arquivo)
\* what is kept (or was printed) is what the scans with a result returned
GuardadoDosSucessos(guardado) ==
    /\ \A i \in 1..Len(varridos) :
           ~varridos[i].retorno.none =>
               \E k \in 1..Len(guardado) : guardado[k].titulo = TituloDoScan(varridos[i])
    /\ \A k \in 1..Len(guardado) :
           \E i \in 1..Len(varridos) :
               /\ ~varridos[i].retorno.none
               /\ guardado[k].titulo = TituloDoScan(varridos[i])
               /\ guardado[k].valor = varridos[i].retorno
PassoFinal == fase \in {"exportacao", "exportacao_pdf", "concluido"}

\* C17: a scan that fails never aborts the run: every run of main comes to
\* its end, by then the consolidated file and every discovered regional file
\* were scanned in every mode of the program, in order, and the run is at its
\* export step (its printing, in analise_output.py) with the results of the
\* scans that returned one.
C17_FailedScanNeverAbortsRun ==
    /\ <>(fase = "concluido")
    /\ [](PassoFinal => ScansFeitos = ScansDevidos(programa, regionais))
    /\ [](PassoFinal =>
             IF programa = "output"
             THEN resultados_gerais = <<>> /\ GuardadoDosSucessos(exibidos)
             ELSE exibidos = <<>> /\ GuardadoDosSucessos(resultados_gerais))

\* C17 witness: a finished run in which a scan failed, a later scan returned
\* a result, and both exports were attempted.
C17_Witness ==
    /\ fase = "concluido"
    /\ Len(exportacoes) = 2
    /\ \E i, j \in 1..Len(varridos) :
           i < j /\ varridos[i].retorno.none /\ ~varridos[j].retorno.none

\* C18: a finished run of gerar_relatorio_analise_cnj.py or
\* analise_output_sus.py made no export exactly when no scan returned a
\* result; otherwise the CSV export and then the PDF export were each called
\* once with all the collected results, whatever the first export did.
C18_NothingToExportIffNoResult ==
    (fase = "concluido" /\ programa # "output") =>
        /\ (exportacoes = <<>>) <=> (\A i \in 1..Len(varridos) : varridos[i].retorno.none)
        /\ exportacoes # <<>> =>
               /\ Len(exportacoes) = 2
               /\ exportacoes[1].tipo = "csv" /\ exportacoes[2].tipo = "pdf"
               /\ \A e \in 1..2 : exportacoes[e].argumento = resultados_gerais
               /\ GuardadoDosSucessos(resultados_gerais)

\* C18 witness: a finished run with exactly one collected result, a failed
\* CSV export and a PDF export called all the same.
C18_Witness ==
    /\ fase = "concluido"
    /\ programa # "output"
    /\ Len(resultados_gerais) = 1
    /\ Len(exportacoes) = 2
    /\ ~exportacoes[1].ok
    /\ exportacoes[2].argumento = resultados_gerais

(***************************************************************************)
(* Two calls of analisar_frequencias (gerar_relatorio_analise_cnj.py) with *)
(* the same arguments.  What may differ from one call to the next is the   *)
(* order in which the process iterates over its sets.                      *)
(***************************************************************************)
RowsExec ==
    {[c \in Campos |-> IF c = "F" THEN p[1] ELSE p[2]] :
        p \in {Txt(<<"{", "A", ",", " ", "B", "}">>),
               Txt(<<"{", "A", ",", " ", "S", "I", "G", "I", "L", "O", "S", "O", "}">>)}
              \X CelG}
FontesExec ==
    {[existe |-> TRUE, header |-> Campos, rows |-> r] :
        r \in UNION {[1..n -> RowsExec] : n \in 0..MaxRows}}
ConjuntosDeChaves == {{<<"B">>}, {<<"B">>, <<"S">>}}

\* the orders in which a set may be iterated
Permutacoes(S) ==
    {q \in [1..Cardinality(S) -> S] : \A i, j \in 1..Cardinality(S) : i < j => q[i] # q[j]}

\* list(set(X)) in a process that iterates over sets in the order ordem
ListaDoSet(X, ordem) == SelectSeq(ordem, LAMBDA c : c \in X)

\* a variant of the keyword loop that tries the first keyword only
AlgumaChavePrimeira(natureza_upper, chaves) ==
    chaves # <<>> /\ Contains(natureza_upper, Head(chaves))

\* for chave in palavras_chave: if chave in natureza_upper: return True
RECURSIVE AlgumaChave(_, _)
AlgumaChave(natureza_upper, chaves) ==
    IF chaves = <<>> THEN FALSE
    ELSE IF Contains(natureza_upper, Head(chaves)) THEN TRUE
    ELSE AlgumaChave(natureza_upper, Tail(chaves))

\* for natureza in lista_naturezas: ...
RECURSIVE AlgumaNaturezaEmOrdem(_, _)
AlgumaNaturezaEmOrdem(lista_naturezas, chaves) ==
    IF lista_naturezas = <<>> THEN FALSE
    ELSE IF AlgumaChave(Upper(Head(lista_naturezas)), chaves) THEN TRUE
    ELSE AlgumaNaturezaEmOrdem(Tail(lista_naturezas), chaves)

\* eh_ente_publico with the keyword set iterated in the order chaves
eh_ente_publico_em_ordem(texto_natjur, chaves) ==
    IF IsNa(texto_natjur) THEN FALSE
    ELSE LET lista_naturezas == parse_multi_valor(texto_natjur)
         IN  IF lista_naturezas = <<>> THEN FALSE
             ELSE AlgumaNaturezaEmOrdem(lista_naturezas, chaves)

\* pd.read_csv(..., usecols=colunas_para_ler_final): the columns named, whatever
\* the order of the list
LerColunas(rows, usecols) ==
    [i \in 1..Len(rows) |-> [c \in (DOMAIN rows[i]) \cap Range(usecols) |-> rows[i][c]]]

\* the arrangement sort_values(ascending=False) returns: the sort is an
\* algorithm, so for one Counter it is one of the non-increasing arrangements,
\* the same at every call
SortValues(contador) == CHOOSE o \in OrdensDesc(contador) : TRUE

\* the chunk loop with the keyword set iterated in the order chaves
RECURSIVE LoopGerarEmOrdem(_, _, _, _, _, _)
LoopGerarEmOrdem(rows, cs, filt, cols, chaves, acc) ==
    IF rows = <<>> THEN acc
    ELSE LET chunk == SubSeq(rows, 1, Min(cs, Len(rows)))
             rest == SubSeq(rows, Len(chunk) + 1, Len(rows))
             chunk_processar ==
                 IF filt
                 THEN SelectSeq(chunk,
                          LAMBDA r : eh_ente_publico_em_ordem(r[ColunaFiltro], chaves))
                 ELSE chunk
             um == [coluna \in cols |->
                       ContarColuna([contador |-> acc.cont[coluna],
                                     sigiloso |-> acc.sig[coluna]],
                                    ColData(chunk_processar, coluna))]
         IN  IF chunk_processar = <<>>
             THEN LoopGerarEmOrdem(rest, cs, filt, cols, chaves, acc)
             ELSE IF \A coluna \in cols : ColData(chunk_processar, coluna) = <<>>
             THEN [acc EXCEPT !.falha = TRUE]
             ELSE LoopGerarEmOrdem(rest, cs, filt, cols, chaves,
                      [falha |-> FALSE,
                       cont |-> [coluna \in cols |-> um[coluna].contador],
                       sig |-> [coluna \in cols |-> um[coluna].sigiloso]])

\* analisar_frequencias(f, cols, filt, ColunaFiltro, palavras_chave) with batch
\* size cs, in a process that iterates palavras_chave in the order chaves and
\* its column sets in the order ordem_colunas
AnalisarFrequencias(f, cols, filt, chaves, ordem_colunas, cs) ==
    LET existentes == SelectSeq(cols, LAMBDA col : col \in f.header)
        filtrar_final == filt /\ ColunaFiltro \in f.header
        colunas_para_ler_final ==
            ListaDoSet(Range(existentes) \cup
                           (IF filtrar_final THEN {ColunaFiltro} ELSE {}),
                       ordem_colunas)
        a == LoopGerarEmOrdem(LerColunas(f.rows, colunas_para_ler_final), cs,
                              filtrar_final, Range(existentes), chaves,
                              AcumuladorZero(Range(existentes)))
    IN  IF ~f.existe \/ existentes = <<>> THEN None
        ELSE IF a.falha THEN None
        ELSE Some([coluna \in Range(cols) |->
                      IF coluna \notin Range(existentes) THEN DadosVazios
                      ELSE DadosColuna(a.cont[coluna], a.sig[coluna],
                                       SortValues(a.cont[coluna]))])

InitExec ==
    /\ exec_args \in [f : FontesExec, cols : ColunasAnaliseOpcoes, filt : BOOLEAN,
                      palavras : ConjuntosDeChaves, cs : 1..MaxChunk]
    /\ exec1 = ExecNaoFeita
    /\ exec2 = ExecNaoFeita
    /\ TokIdle
    /\ ScanIdle
    /\ MainIdle
    /\ PyIdle
    /\ ConcIdle

\* one call, in a process with some iteration order of its sets
Execucao(oc, ol) ==
    [feito |-> TRUE, ordem_chaves |-> oc, ordem_colunas |-> ol,
     retorno |-> AnalisarFrequencias(exec_args.f, exec_args.cols, exec_args.filt,
                                     oc, ol, exec_args.cs)]

Executar1 ==
    /\ exec_args # <<>>
    /\ ~exec1.feito
    /\ \E oc \in Permutacoes(exec_args.palavras), ol \in Permutacoes(Campos) :
           exec1' = Execucao(oc, ol)
    /\ UNCHANGED <<exec_args, exec2, tokVars, scanVars, tabVars, mainVars,
                   pyVars, concVars>>

Executar2 ==
    /\ exec_args # <<>>
    /\ exec1.feito
    /\ ~exec2.feito
    /\ \E oc \in Permutacoes(exec_args.palavras), ol \in Permutacoes(Campos) :
           exec2' = Execucao(oc, ol)
    /\ UNCHANGED <<exec_args, exec1, tokVars, scanVars, tabVars, mainVars,
                   pyVars, concVars>>

NextExec == Executar1 \/ Executar2

SpecExec == InitExec /\ [][NextExec]_vars

\* with the keyword set of the program, a call returns one of the results of
\* the scan
ExecConcorda ==
    (exec1.feito /\ exec_args.palavras = PalavrasChaveEntes) =>
        exec1.retorno \in ResultadosGerar(exec_args.f, exec_args.cols, exec_args.filt,
                                          exec_args.cs)

\* C19: two calls of analisar_frequencias with the same source, analysed
\* fields, filter column, keyword set and batch size return the same value
\* (same keys, same order of the tokens, same counts, totals and confidential
\* counts), whatever the order in which each call iterates over the keyword
\* set and over its column sets.
C19_ScanDeterministic ==
    (exec1.feito /\ exec2.feito) => exec1.retorno = exec2.retorno

\* C19 witness: two filtered calls with a keyword set of two that iterate the
\* keywords and the columns in different orders and return a distribution
\* with two tokens of equal count.
C19_Witness ==
    /\ exec1.feito /\ exec2.feito
    /\ exec_args.filt
    /\ Cardinality(exec_args.palavras) = 2
    /\ exec1.ordem_chaves # exec2.ordem_chaves
    /\ exec1.ordem_colunas # exec2.ordem_colunas
    /\ ~exec2.retorno.none
    /\ Len(exec2.retorno.dados["F"].contagens) = 2
    /\ exec2.retorno.dados["F"].contagens[1].Contagem
           = exec2.retorno.dados["F"].contagens[2].Contagem

(***************************************************************************)
(* The accumulators from batch to batch.                                   *)
(***************************************************************************)
AcumuladorCresce(c1, s1, c2, s2) ==
    \A coluna \in DOMAIN c1 :
        /\ coluna \in DOMAIN c2
        /\ DOMAIN c1[coluna] \subseteq DOMAIN c2[coluna]
        /\ \A item \in DOMAIN c1[coluna] : c2[coluna][item] >= c1[coluna][item]
        /\ s2[coluna] >= s1[coluna]
AcumuladorNaoNegativo(c, s) ==
    \A coluna \in DOMAIN c :
        /\ \A item \in DOMAIN c[coluna] : c[coluna][item] >= 0
        /\ s[coluna] >= 0

\* C20: during a scan (of any of the three programs), every step of the batch
\* loop leaves every token count and every confidential counter at least as
\* large as before and not negative, and keeps every token of every field's
\* mapping.
PassoMonotono ==
    pc \in {"primeiro", "lendo"} =>
        (/\ AcumuladorCresce(contadores, contagem_sigiloso,
                             contadores', contagem_sigiloso')
         /\ AcumuladorNaoNegativo(contadores', contagem_sigiloso'))
C20_AccumulatorMonotonic == [][PassoMonotono]_vars

\* C20 witness: a scan of gerar_relatorio_analise_cnj.py or
\* analise_output_sus.py after its second batch of one row, with a token
\* counted in both batches and a confidential token tallied.
C20_Witness ==
    /\ impl \in {"gerar", "sus"}
    /\ pc = "lendo"
    /\ chunksize = 1
    /\ pos = 2
    /\ \E coluna \in DOMAIN contadores :
           /\ \E item \in DOMAIN contadores[coluna] : contadores[coluna][item] = 2
           /\ contagem_sigiloso[coluna] >= 1

(***************************************************************************)
(* The rows the entity filter lets through.                                *)
(***************************************************************************)
FiltroAtivo == impl = "sus" \/ (impl = "gerar" /\ filtrar)
TokensValidos(toks) ==
    Cardinality({i \in 1..Len(toks) : Upper(Strip(toks[i])) # <<>>})
PassoFiltrado ==
    (FiltroAtivo /\ pc \in {"primeiro", "lendo"} /\ pc' = "lendo") =>
        LET chunk == ProximoChunk
            passam == SelectSeq(chunk,
                          LAMBDA r : eh_ente_publico(r[ColunaFiltro], PalavrasChaveEntes))
        IN  /\ linhas_lidas' = linhas_lidas + Len(chunk)
            /\ linhas_processadas' = linhas_processadas + Len(passam)
            /\ passam = <<>> => UNCHANGED <<contadores, contagem_sigiloso>>
            /\ \A coluna \in DOMAIN contadores :
                   coluna \in fonte.header =>
                       TotalOcorrenciasGeral(contadores'[coluna], contagem_sigiloso'[coluna])
                         = TotalOcorrenciasGeral(contadores[coluna], contagem_sigiloso[coluna])
                           + TokensValidos(TokensDe(passam, coluna))

\* C23: in a filtered scan, a batch step counts the rows read, and only the
\* rows whose filter cell names a public entity are processed: when no row of
\* the batch passes (null filter cells included) no token count and no
\* confidential counter changes, and the rows that pass add, for every
\* analysed field of the header, exactly their tokens.
C23_FilteredRowsChangeNothing == [][PassoFiltrado]_vars

\* C23 witness: a filtered scan that has read two rows and processed one of
\* them, whose tokens are in the accumulator.
C23_Witness ==
    /\ FiltroAtivo
    /\ pc = "lendo"
    /\ linhas_lidas = 2
    /\ linhas_processadas = 1
    /\ \E coluna \in DOMAIN contadores :
           TotalOcorrenciasGeral(contadores[coluna], contagem_sigiloso[coluna]) >= 2

\* C24: a scan of analisar_frequencias (gerar_relatorio_analise_cnj.py or
\* analise_output.py) over a readable source whose header declares at least
\* one analysed field ends with a result, whatever null and non-null cells
\* its batches hold.
C24_NullBatchDoesNotAbort ==
    (/\ Terminou
     /\ impl \in {"gerar", "output"}
     /\ fonte.existe
     /\ Range(colunas_analise) \cap fonte.header # {}) => ~resultado.none

\* C28: in the table the formatters of relatorio_export.py and of
\* gerar_relatorio_analise_cnj.py make of a field result a scan produced,
\* with any top_n >= 0: every stored count is at least 1; when the number U
\* of distinct tokens exceeds top_n the remainder other is strictly positive
\* and the Outros row is there with the sum of the counts of the tokens not
\* shown; when U <= top_n there is no Outros row.
C28_OtherRowIffMoreTokens ==
    (pc = "tabela" /\ impl \in {"gerar", "sus"}) =>
        LET contagens == DadosTabela.contagens
            U == Len(contagens)
        IN  /\ \A i \in 1..U : contagens[i].Contagem >= 1
            /\ U > top_n =>
                   /\ OutrosEsperado > 0
                   /\ ~tabela.none
                   /\ TemLinhaOutros
                   /\ Meio[1].Contagem = SerieSum(SubSeq(contagens, top_n + 1, U))
            /\ (U <= top_n /\ ~tabela.none) =>
                   \A i \in 1..Len(tabela.linhas) : ~EhOutros(tabela.linhas[i])

\* C28 witness: two distinct tokens and top_n = 0: no Top-N row, and the
\* Outros row carries all three valid occurrences.
C28_Witness ==
    /\ pc = "tabela"
    /\ impl = "gerar"
    /\ top_n = 0
    /\ Len(DadosTabela.contagens) = 2
    /\ ~tabela.none
    /\ tabela.linhas[1].Item = OutrosItem(2)
    /\ tabela.linhas[1].Contagem = 3

(***************************************************************************)
(* The two entity-scoped scans side by side.                               *)
(***************************************************************************)
\* C27: on a source whose header contains the filter column, a finished scan
\* of analisar_frequencias_entes_publicos returns an outcome that
\* analisar_frequencias(..., True, ...) of gerar_relatorio_analise_cnj.py
\* returns for the same source, fields and batch size, and the other way
\* round.
C27_EntityScansAgree ==
    (Terminou /\ fonte.existe /\ ColunaFiltro \in fonte.header) =>
        /\ impl = "sus" =>
               resultado \in ResultadosGerar(fonte, colunas_analise, TRUE, chunksize)
        /\ (impl = "gerar" /\ filtrar) =>
               resultado \in ResultadosSus(fonte, colunas_analise, chunksize)

(***************************************************************************)
(* The exporters that fail.                                                *)
(***************************************************************************)
PassoExporta ==
    exportacoes' # exportacoes =>
        /\ resultados_gerais' = resultados_gerais
        /\ varridos' = varridos
        /\ fase' = (IF fase = "exportacao" THEN "exportacao_pdf" ELSE "concluido")
FalhouCSV == exportacoes # <<>> /\ ~exportacoes[1].ok
FalhouPDF == Len(exportacoes) = 2 /\ ~exportacoes[2].ok

C30_EveryScanKeepsItsEntry ==
    (PassoFinal /\ programa \in {"gerar", "sus"}) =>
        /\ \A i, j \in 1..Len(varridos) :
               i # j => TituloDoScan(varridos[i]) # TituloDoScan(varridos[j])
        /\ Len(resultados_gerais)
               = Cardinality({i \in 1..Len(varridos) : ~varridos[i].retorno.none})
        /\ \A e \in 1..Len(exportacoes) :
               Len(exportacoes[e].argumento)
                   = Cardinality({i \in 1..Len(varridos) : ~varridos[i].retorno.none})

(***************************************************************************)
(* main.py: verificar_assuntos, filtrar_csv_por_assunto and                *)
(* consolidar_csvs_regionais.  A file is the sequence of its lines; a line *)
(* records what it is (header or data row), which file it came from and    *)
(* which data row of that file it is.                                      *)
(***************************************************************************)
CHUNKSIZE_LEITURA == 50000
CODIGOS_SAUDE_RELEVANTES ==
    {12480, 12521, 12520, 12507, 12508, 12509, 12510, 12481, 12485, 12498,
     12497, 12499, 12484, 12496, 12492, 12495, 12494, 12493, 12483, 12505,
     12506, 12511, 12518, 12512, 12513, 12514, 12515, 12516, 12517, 14759,
     12491, 12501, 12502, 12503, 12500, 12504, 12519, 12482, 12486, 12490,
     12487, 12488, 12489, 14760}
\* the subject column (A) and the columns to keep: one more column (P) and
\* the subject column
COLUNA_ASSUNTO_CODIGO == <<"A">>
COLUNAS_RELEVANTES == <<<<"P">>, <<"A">>>>

Digitos == <<"0", "1", "2", "3", "4", "5", "6", "7", "8", "9">>
IsDecimal(c) == \E d \in 1..Len(Digitos) : Digitos[d] = c
ValorDigito(c) == (CHOOSE d \in 1..Len(Digitos) : Digitos[d] = c) - 1

\* int(codigo_str) for a run of digits
RECURSIVE ParaInt(_)
ParaInt(codigo_str) ==
    IF codigo_str = <<>> THEN 0
    ELSE 10 * ParaInt(SubSeq(codigo_str, 1, Len(codigo_str) - 1))
         + ValorDigito(codigo_str[Len(codigo_str)])

\* length of the run of digits s starts with
RECURSIVE PrefixoDigitos(_)
PrefixoDigitos(s) ==
    IF s # <<>> /\ IsDecimal(Head(s)) THEN 1 + PrefixoDigitos(Tail(s)) ELSE 0

\* re.findall(r'\d+', s): the maximal runs of digits, left to right
RECURSIVE Findall(_)
Findall(s) ==
    IF s = <<>> THEN <<>>
    ELSE LET n == PrefixoDigitos(s)
         IN  IF n = 0 THEN Findall(Tail(s))
             ELSE <<SubSeq(s, 1, n)>> \o Findall(SubSeq(s, n + 1, Len(s)))

verificar_assuntos(texto_assuntos, codigos_relevantes) ==
    IF texto_assuntos.nulo THEN FALSE
    ELSE LET codigos_extraidos_str == Findall(texto_assuntos.texto)
             codigos_extraidos_int ==
                 {ParaInt(codigos_extraidos_str[k]) : k \in 1..Len(codigos_extraidos_str)}
         IN  IF codigos_extraidos_str = <<>> THEN FALSE
             ELSE codigos_extraidos_int \cap codigos_relevantes # {}

\* subject cells: missing, one relevant code, a relevant code after another
\* code, a relevant code with a leading zero, a longer run of digits that
\* starts with a relevant code, no digit at all
CelulasAssunto ==
    {NaN,
     Txt(<<"1", "2", "4", "8", "0">>),
     Txt(<<"9", ";", "1", "4", "7", "6", "0">>),
     Txt(<<"0", "1", "2", "4", "8", "0">>),
     Txt(<<"1", "2", "4", "8", "0", "0">>),
     Txt(<<"x">>)}

\* headers of a source: the columns to keep, in another order, with one more
\* column, without the subject column, without the other column, and with
\* blanks around the names
CabecalhosFonte ==
    {<<<<"P">>, <<"A">>>>,
     <<<<"A">>, <<"P">>>>,
     <<<<"P">>, <<"A">>, <<"X">>>>,
     <<<<"P">>>>,
     <<<<"X">>, <<"A">>>>,
     <<<<" ", "P">>, <<"A", " ">>>>}

\* a source: its header line and the subject cell of each data row
FontesFiltro ==
    {[header |-> h, rows |-> r] :
        h \in CabecalhosFonte,
        r \in UNION {[1..n -> CelulasAssunto] : n \in 0..MaxRows}}

\* where a line comes from: the source of this call, a file written by an
\* earlier run, the k-th file of the regional folder
DaFonte == [de |-> "fonte", k |-> 0]
Anterior == [de |-> "anterior", k |-> 0]
Regional(k) == [de |-> "regional", k |-> k]

Cabecalho(origem) == [tipo |-> "cabecalho", origem |-> origem, indice |-> 0]
LinhaDados(origem, k) == [tipo |-> "linha", origem |-> origem, indice |-> k]

\* what an earlier run may have left at the output path: nothing, a file
\* under 100 bytes (a header line only), a file with a header and a data row
ArquivoPequeno ==
    [existe |-> TRUE, st_size |-> 60, linhas |-> <<Cabecalho(Anterior)>>]
ArquivoGrande ==
    [existe |-> TRUE, st_size |-> 300,
     linhas |-> <<Cabecalho(Anterior), LinhaDados(Anterior, 1)>>]
ArquivosAnteriores == {SemArquivo, ArquivoPequeno, ArquivoGrande}

\* mode = 'w' if primeiro_chunk else 'a'
ModoEscrita(primeiro) == IF primeiro THEN "w" ELSE "a"

\* a variant that writes the header with every batch
CabecalhoSempre(primeiro) == TRUE

\* header = primeiro_chunk
CabecalhoEscrita(primeiro) == primeiro

\* DataFrame.to_csv(path, mode=mode, header=header) for the data rows novas
\* of the file origem; a header line of the eight kept columns takes 127
\* bytes, a data row at least 8
ToCsv(arquivo, origem, novas, mode, header) ==
    LET antes == IF mode = "w" \/ ~arquivo.existe THEN <<>> ELSE arquivo.linhas
        base == IF mode = "w" \/ ~arquivo.existe THEN 0 ELSE arquivo.st_size
        escritas == (IF header THEN <<Cabecalho(origem)>> ELSE <<>>)
                    \o [k \in 1..Len(novas) |-> LinhaDados(origem, novas[k])]
    IN  [existe |-> TRUE,
         st_size |-> base + (IF header THEN 127 ELSE 0) + 8 * Len(novas),
         linhas |-> antes \o escritas]

\* the indices in a..b, ascending, of the rows whose subject cell matches
IndicesQueCasam(rows, a, b) ==
    SelectSeq([k \in 1..(b - a + 1) |-> a + k - 1],
              LAMBDA k : verificar_assuntos(rows[k], CODIGOS_SAUDE_RELEVANTES))

InitFiltro ==
    /\ caminho_csv_original \in FontesFiltro
    /\ caminho_saida_csv \in ArquivosAnteriores
    /\ chunksize_leitura \in 1..MaxChunk
    /\ primeiro_chunk = TRUE
    /\ total_linhas_lidas = 0
    /\ total_linhas_filtradas = 0
    /\ lidas_fonte = 0
    /\ fpc = "inicio"
    /\ ConsIdle
    /\ TokIdle
    /\ ScanIdle
    /\ MainIdle
    /\ ExecIdle
    /\ ConcIdle

\* lines 164-213: the header is read and its names stripped, the requested
\* columns are looked up among the stripped names, and the batch reader is
\* opened on the requested names; a requested name that is not, unstripped, a
\* column of the file makes read_csv raise, which the outer handler logs
F_Cabecalho ==
    /\ fpc = "inicio"
    /\ LET header == caminho_csv_original.header
           colunas_reais_csv == [k \in 1..Len(header) |-> Strip(header[k])]
           mapa_nomes == Range(colunas_reais_csv)
           colunas_faltantes ==
               SelectSeq(COLUNAS_RELEVANTES, LAMBDA col : col \notin mapa_nomes)
           colunas_para_ler == {COLUNA_ASSUNTO_CODIGO} \cup Range(COLUNAS_RELEVANTES)
       IN  fpc' = IF colunas_faltantes # <<>> THEN "retornou"
                  ELSE IF COLUNA_ASSUNTO_CODIGO \notin mapa_nomes THEN "retornou"
                  ELSE IF ~(colunas_para_ler \subseteq Range(header)) THEN "excecao"
                  ELSE "primeiro"
    /\ UNCHANGED <<caminho_csv_original, caminho_saida_csv, chunksize_leitura,
                   primeiro_chunk, total_linhas_lidas, total_linhas_filtradas,
                   lidas_fonte, consVars, tokVars, scanVars, tabVars, mainVars,
                   execVars, concVars>>

\* the batch reader has a batch to hand out: a file without data rows yields
\* one empty batch
TemChunkFonte ==
    \/ fpc = "primeiro"
    \/ fpc = "lendo" /\ lidas_fonte < Len(caminho_csv_original.rows)

\* lines 216-239: one pass of the loop over the batches
F_Chunk ==
    /\ TemChunkFonte
    /\ LET rows == caminho_csv_original.rows
           fim == Min(lidas_fonte + chunksize_leitura, Len(rows))
           chunk_filtrado == IndicesQueCasam(rows, lidas_fonte + 1, fim)
       IN  /\ total_linhas_lidas' = total_linhas_lidas + (fim - lidas_fonte)
           /\ lidas_fonte' = fim
           /\ IF chunk_filtrado # <<>>
              THEN /\ total_linhas_filtradas'
                          = total_linhas_filtradas + Len(chunk_filtrado)
                   /\ caminho_saida_csv'
                          = ToCsv(caminho_saida_csv, DaFonte, chunk_filtrado,
                                  ModoEscrita(primeiro_chunk),
                                  CabecalhoEscrita(primeiro_chunk))
                   /\ primeiro_chunk' = FALSE
              ELSE UNCHANGED <<total_linhas_filtradas, caminho_saida_csv,
                               primeiro_chunk>>
    /\ fpc' = "lendo"
    /\ UNCHANGED <<caminho_csv_original, chunksize_leitura, consVars, tokVars,
                   scanVars, tabVars, mainVars, execVars, concVars>>

\* lines 241-248: after the loop, an output file is removed when no row was
\* kept and the file is under 100 bytes; unlink may fail, which is logged
F_Finalizar ==
    /\ fpc = "lendo"
    /\ ~TemChunkFonte
    /\ IF total_linhas_filtradas = 0 /\ caminho_saida_csv.existe
          /\ caminho_saida_csv.st_size < 100
       THEN \E removido \in BOOLEAN :
                caminho_saida_csv' = IF removido THEN SemArquivo ELSE caminho_saida_csv
       ELSE UNCHANGED caminho_saida_csv
    /\ fpc' = "concluido"
    /\ UNCHANGED <<caminho_csv_original, chunksize_leitura, primeiro_chunk,
                   total_linhas_lidas, total_linhas_filtradas, lidas_fonte,
                   consVars, tokVars, scanVars, tabVars, mainVars, execVars,
                   concVars>>

NextFiltro == F_Cabecalho \/ F_Chunk \/ F_Finalizar

SpecFiltro == InitFiltro /\ [][NextFiltro]_vars

\* the call is over: it ran to the end, returned early or logged an exception
FiltroTerminou == fpc \in {"concluido", "retornou", "excecao"}

\* the header of the source holds every column to keep, the subject column
\* included
CabecalhoCompleto ==
    Range(COLUNAS_RELEVANTES) \cup {COLUNA_ASSUNTO_CODIGO}
        \subseteq Range(caminho_csv_original.header)

\* the rows of the source for which verificar_assuntos is true, in source order
LinhasQueCasam ==
    IndicesQueCasam(caminho_csv_original.rows, 1, Len(caminho_csv_original.rows))

\* a header line of this call followed by the matching rows in source order
SaidaEsperada ==
    <<Cabecalho(DaFonte)>>
        \o [k \in 1..Len(LinhasQueCasam) |-> LinhaDados(DaFonte, LinhasQueCasam[k])]

\* C25 as stated: for a source whose header has all required columns, after
\* filtrar_csv_por_assunto the regional output holds the header exactly once,
\* as its first line, followed by exactly the rows for which
\* verificar_assuntos is true, in source order.
C25_OutputIsHeaderThenMatches ==
    (FiltroTerminou /\ CabecalhoCompleto) =>
        /\ caminho_saida_csv.existe
        /\ caminho_saida_csv.linhas = SaidaEsperada

\* C25 amended: for a source whose header has all required columns, after
\* filtrar_csv_por_assunto, if at least one row matches, the regional output
\* holds the header exactly once, as its first line, followed by exactly the
\* matching rows in source order, whatever the batch size and whichever
\* batches match; if no row matches, the call has written nothing: the path
\* holds no line of this call.
C25_OutputIsHeaderThenMatchesIfAny ==
    (FiltroTerminou /\ CabecalhoCompleto) =>
        /\ fpc = "concluido"
        /\ total_linhas_lidas = Len(caminho_csv_original.rows)
        /\ total_linhas_filtradas = Len(LinhasQueCasam)
        /\ IF LinhasQueCasam # <<>>
           THEN /\ caminho_saida_csv.existe
                /\ caminho_saida_csv.linhas = SaidaEsperada
           ELSE \A k \in 1..Len(caminho_saida_csv.linhas) :
                    caminho_saida_csv.linhas[k].origem # DaFonte

\* C25 witness: a source of two rows read in two batches, the first batch
\* without a matching row and the second with one (a code with a leading
\* zero), over a file of an earlier run, is done and the output is the header
\* and that row.
C25_Witness ==
    /\ fpc = "concluido"
    /\ CabecalhoCompleto
    /\ chunksize_leitura = 1
    /\ Len(caminho_csv_original.rows) = 2
    /\ LinhasQueCasam = <<2>>
    /\ caminho_csv_original.rows[2] = Txt(<<"0", "1", "2", "4", "8", "0">>)
    /\ caminho_saida_csv.linhas = <<Cabecalho(DaFonte), LinhaDados(DaFonte, 2)>>

\* C29: after filtrar_csv_por_assunto has processed a source to completion,
\* the regional output path holds only rows of this call's source: no data
\* row of a file left by an earlier run remains there, in particular when no
\* row of the source matches.
C29_NoRowOfEarlierRun ==
    fpc = "concluido" =>
        \A k \in 1..Len(caminho_saida_csv.linhas) :
            caminho_saida_csv.linhas[k].tipo = "linha"
                => caminho_saida_csv.linhas[k].origem = DaFonte

(***************************************************************************)
(* consolidar_csvs_regionais.  A regional file opens or makes read_csv     *)
(* raise (an empty file); it has n data rows; ruim, when not 0, is the     *)
(* data row that makes the batch reader raise when it reaches it.          *)
(***************************************************************************)
ArquivosRegionais ==
    {[abre |-> FALSE, n |-> 0, ruim |-> 0]}
        \cup {a \in [abre : {TRUE}, n : 0..MaxRows, ruim : 0..MaxRows] : a.ruim <= a.n}

\* list(pasta_csvs_regionais.glob("*.csv")): some files in some order
PastasRegionais == UNION {[1..m -> ArquivosRegionais] : m \in 0..MaxRegionais}

InitConsolida ==
    /\ pasta_csvs_regionais \in PastasRegionais
    /\ arquivo_saida_consolidado \in {SemArquivo, ArquivoGrande}
    /\ chunksize_leitura \in 1..MaxChunk
    /\ primeiro_arquivo = TRUE
    /\ total_linhas_consolidadas = 0
    /\ indice_regional = 0
    /\ i_chunk = 0
    /\ lidas_regional = 0
    /\ cpc = "inicio"
    /\ FiltIdle
    /\ TokIdle
    /\ ScanIdle
    /\ MainIdle
    /\ ExecIdle
    /\ ConcIdle

\* lines 260-265: without a regional file the function returns; otherwise the
\* consolidated file is opened for writing, which empties it
K_Abrir ==
    /\ cpc = "inicio"
    /\ IF pasta_csvs_regionais = <<>>
       THEN /\ cpc' = "retornou"
            /\ UNCHANGED <<arquivo_saida_consolidado, indice_regional>>
       ELSE /\ cpc' = "for"
            /\ arquivo_saida_consolidado'
                   = [existe |-> TRUE, st_size |-> 0, linhas |-> <<>>]
            /\ indice_regional' = 1
    /\ UNCHANGED <<pasta_csvs_regionais, chunksize_leitura, primeiro_arquivo,
                   total_linhas_consolidadas, i_chunk, lidas_regional, filtVars,
                   tokVars, scanVars, tabVars, mainVars, execVars, concVars>>

\* lines 266-269: the next regional file is handed to read_csv; if that
\* raises, the inner handler logs it and the loop goes on
K_AbrirRegional ==
    /\ cpc = "for"
    /\ indice_regional <= Len(pasta_csvs_regionais)
    /\ IF pasta_csvs_regionais[indice_regional].abre
       THEN /\ cpc' = "primeiro"
            /\ UNCHANGED indice_regional
       ELSE /\ cpc' = "for"
            /\ indice_regional' = indice_regional + 1
    /\ i_chunk' = 0
    /\ lidas_regional' = 0
    /\ UNCHANGED <<pasta_csvs_regionais, arquivo_saida_consolidado,
                   chunksize_leitura, primeiro_arquivo, total_linhas_consolidadas,
                   filtVars, tokVars, scanVars, tabVars, mainVars, execVars,
                   concVars>>

\* the batch reader of the regional file has a batch to hand out
TemChunkRegional ==
    \/ cpc = "primeiro"
    \/ cpc = "lendo"
       /\ lidas_regional < pasta_csvs_regionais[indice_regional].n

\* header = primeiro_arquivo and i == 0
CabecalhoConsolidado(primeiro, i) == primeiro /\ i = 0

\* lines 270-276 and 278: one pass of the loop over the batches of a regional
\* file; a batch the reader cannot parse raises, which ends this file
K_Chunk ==
    /\ TemChunkRegional
    /\ LET arquivo == pasta_csvs_regionais[indice_regional]
           fim == Min(lidas_regional + chunksize_leitura, arquivo.n)
           chunk == [k \in 1..(fim - lidas_regional) |-> lidas_regional + k]
       IN  IF arquivo.ruim \in (lidas_regional + 1)..fim
           THEN /\ cpc' = "for"
                /\ indice_regional' = indice_regional + 1
                /\ UNCHANGED <<arquivo_saida_consolidado, primeiro_arquivo,
                               total_linhas_consolidadas, i_chunk, lidas_regional>>
           ELSE /\ cpc' = "lendo"
                /\ lidas_regional' = fim
                /\ i_chunk' = i_chunk + 1
                /\ UNCHANGED indice_regional
                /\ IF chunk = <<>>
                   THEN UNCHANGED <<arquivo_saida_consolidado, primeiro_arquivo,
                                    total_linhas_consolidadas>>
                   ELSE /\ total_linhas_consolidadas'
                               = total_linhas_consolidadas + Len(chunk)
                        /\ arquivo_saida_consolidado'
                               = ToCsv(arquivo_saida_consolidado,
                                       Regional(indice_regional), chunk, "a",
                                       CabecalhoConsolidado(primeiro_arquivo, i_chunk))
                        /\ primeiro_arquivo' = FALSE
    /\ UNCHANGED <<pasta_csvs_regionais, chunksize_leitura, filtVars, tokVars,
                   scanVars, tabVars, mainVars, execVars, concVars>>

\* line 277: the batches of the regional file are exhausted
K_FimRegional ==
    /\ cpc = "lendo"
    /\ ~TemChunkRegional
    /\ cpc' = "for"
    /\ indice_regional' = indice_regional + 1
    /\ UNCHANGED <<pasta_csvs_regionais, arquivo_saida_consolidado,
                   chunksize_leitura, primeiro_arquivo, total_linhas_consolidadas,
                   i_chunk, lidas_regional, filtVars, tokVars, scanVars, tabVars,
                   mainVars, execVars, concVars>>

\* line 279: the loop over the regional files is over
K_Fim ==
    /\ cpc = "for"
    /\ indice_regional > Len(pasta_csvs_regionais)
    /\ cpc' = "concluido"
    /\ UNCHANGED <<pasta_csvs_regionais, arquivo_saida_consolidado,
                   chunksize_leitura, primeiro_arquivo, total_linhas_consolidadas,
                   indice_regional, i_chunk, lidas_regional, filtVars, tokVars,
                   scanVars, tabVars, mainVars, execVars, concVars>>

NextConsolida == K_Abrir \/ K_AbrirRegional \/ K_Chunk \/ K_FimRegional \/ K_Fim

SpecConsolida == InitConsolida /\ [][NextConsolida]_vars

\* a regional file that reads to its end
Legivel(arquivo) == arquivo.abre /\ arquivo.ruim = 0

\* the data rows of the readable files among the first m, file after file
RECURSIVE LinhasDosLegiveis(_)
LinhasDosLegiveis(m) ==
    IF m = 0 THEN <<>>
    ELSE LinhasDosLegiveis(m - 1)
         \o (IF Legivel(pasta_csvs_regionais[m])
             THEN [k \in 1..pasta_csvs_regionais[m].n |-> LinhaDados(Regional(m), k)]
             ELSE <<>>)

\* the data rows and the header lines of the consolidated file
LinhasConsolidadas ==
    SelectSeq(arquivo_saida_consolidado.linhas, LAMBDA l : l.tipo = "linha")
CabecalhosConsolidados ==
    SelectSeq(arquivo_saida_consolidado.linhas, LAMBDA l : l.tipo = "cabecalho")

\* C26: after consolidar_csvs_regionais, the consolidated file has the header
\* exactly once, as its first line, whenever at least one row was written; its
\* data rows are the rows of every readable regional file, file after file,
\* and their number is the sum of the row counts of those files; a file with
\* zero rows or one that fails to read contributes nothing.
C26_ConsolidatedIsHeaderThenAllRows ==
    cpc = "concluido" =>
        /\ LinhasConsolidadas # <<>> =>
               /\ arquivo_saida_consolidado.linhas[1].tipo = "cabecalho"
               /\ Len(CabecalhosConsolidados) = 1
        /\ LinhasConsolidadas = LinhasDosLegiveis(Len(pasta_csvs_regionais))
        /\ total_linhas_consolidadas = Len(LinhasConsolidadas)

(***************************************************************************)
(* Two calls of a scan whose passes over the batches interleave.  Each     *)
(* call builds its contadores and contagem_sigiloso when it starts and     *)
(* every pass works on the accumulators of its own call.                   *)
(***************************************************************************)
\* a row against a public entity and a row against another party
LinhaEntePublico ==
    [c \in Campos |-> IF c = "F" THEN Txt(<<"{", "A", "}">>)
                      ELSE Txt(<<"{", "b", ",", " ", "B", "}">>)]
LinhaOutraParte ==
    [c \in Campos |->
        IF c = "F"
        THEN Txt(<<"{", "B", ",", " ", "S", "I", "G", "I", "L", "O", "S", "O", "}">>)
        ELSE Txt(<<"{", "s", "i", "g", "i", "l", "o", "s", "o", "}">>)]

\* the source of the first call: any rows of the two kinds; the source of the
\* second call: a missing file, or rows against a public entity
FontesConc1 ==
    {[existe |-> TRUE, header |-> Campos, rows |-> r] :
        r \in UNION {[1..n -> {LinhaEntePublico, LinhaOutraParte}] : n \in 0..MaxRows}}
FontesConc2 ==
    {ArquivoAusente}
        \cup {[existe |-> TRUE, header |-> Campos, rows |-> [k \in 1..n |-> LinhaEntePublico]] :
                n \in 1..MaxRows}

\* the scans that run side by side: the script and its filter switch
ModosConc == {<<"gerar", FALSE>>, <<"gerar", TRUE>>, <<"sus", TRUE>>}

Chamada(prog, filt, f, cs) ==
    [prog |-> prog, filt |-> filt, f |-> f, cs |-> cs, pos |-> 0, pc |-> "inicio",
     retorno |-> None, intercalou |-> FALSE]

InitConc ==
    /\ \E m \in ModosConc, f1 \in FontesConc1, f2 \in FontesConc2, cs \in 1..MaxChunk :
           chamadas = <<Chamada(m[1], m[2], f1, cs), Chamada(m[1], m[2], f2, cs)>>
    /\ acumuladores = <<AcumuladorZero({}), AcumuladorZero({})>>
    /\ PyIdle
    /\ TokIdle
    /\ ScanIdle
    /\ MainIdle
    /\ ExecIdle

\* a variant in which every call works on the same accumulators
AcumuladorComum(k) == 1

\* the accumulators call k works on: the locals of that call
AcumuladorDe(k) == k

\* the analysed columns found in the header, and the columns with a counter
ExistentesConc(c) ==
    SelectSeq(IF c.prog = "sus" THEN ColunasParaLerDe(COLUNAS_ANALISE) ELSE COLUNAS_ANALISE,
              LAMBDA col : col \in c.f.header)
ColunasContadas(c) ==
    IF c.prog = "sus" THEN Range(COLUNAS_ANALISE) ELSE Range(ExistentesConc(c))

\* the checks before the loop that make the scan return None
RetornaAntesDoLoop(c) ==
    \/ ~c.f.existe
    \/ ExistentesConc(c) = <<>>
    \/ c.prog = "sus" /\ ColunaFiltro \notin Range(ExistentesConc(c))

\* one pass of the loop of call c over the batch chunk, from accumulators acc
PassoDoLoop(c, chunk, acc) ==
    IF c.prog = "sus"
    THEN LoopSus(chunk, Len(chunk), Range(COLUNAS_ANALISE) \cap Range(ExistentesConc(c)), acc)
    ELSE LoopGerar(chunk, Len(chunk), c.filt /\ ColunaFiltro \in c.f.header,
                   Range(ExistentesConc(c)), acc)

\* the values the scan may return from accumulators a after the loop
RetornosDe(c, a) ==
    LET presentes == IF c.prog = "sus" THEN Range(COLUNAS_ANALISE) \cap c.f.header
                     ELSE Range(ExistentesConc(c))
    IN  {Some([coluna \in Range(COLUNAS_ANALISE) |->
                  IF coluna \notin presentes THEN DadosVazios
                  ELSE DadosColuna(a.cont[coluna], a.sig[coluna], o[coluna])]) :
            o \in EscolhasDeOrdem(ColunasContadas(c), a.cont)}

\* the other call is between two of its passes over batches
OutraNoMeio(k) ==
    LET o == chamadas[3 - k]
    IN  o.pc = "lendo" /\ 0 < o.pos /\ o.pos < Len(o.f.rows)

\* call k takes a step; it is noted whether a pass of call k came between two
\* passes of the other call
Registrar(k, c, passo) ==
    [c EXCEPT !.intercalou = @ \/ (passo /\ OutraNoMeio(k))]

\* the call starts: checks, then its counters are created
Q_Abrir(k) ==
    /\ chamadas # <<>>
    /\ chamadas[k].pc = "inicio"
    /\ LET c == chamadas[k]
       IN  IF RetornaAntesDoLoop(c)
           THEN /\ chamadas' = [chamadas EXCEPT
                                   ![k] = Registrar(k, [c EXCEPT !.pc = "retornou"], FALSE)]
                /\ UNCHANGED acumuladores
           ELSE /\ chamadas' = [chamadas EXCEPT
                                   ![k] = Registrar(k, [c EXCEPT !.pc = "lendo"], FALSE)]
                /\ acumuladores' = [acumuladores EXCEPT
                                       ![AcumuladorDe(k)] = AcumuladorZero(ColunasContadas(c))]
    /\ UNCHANGED <<tokVars, scanVars, tabVars, mainVars, execVars, pyVars>>

\* one pass of the loop of call k over its next batch
Q_Chunk(k) ==
    /\ chamadas # <<>>
    /\ chamadas[k].pc = "lendo"
    /\ chamadas[k].pos < Len(chamadas[k].f.rows)
    /\ LET c == chamadas[k]
           fim == Min(c.pos + c.cs, Len(c.f.rows))
           a == PassoDoLoop(c, SubSeq(c.f.rows, c.pos + 1, fim),
                            acumuladores[AcumuladorDe(k)])
       IN  /\ acumuladores' = [acumuladores EXCEPT ![AcumuladorDe(k)] = a]
           /\ chamadas' = [chamadas EXCEPT
                  ![k] = Registrar(k, IF a.falha THEN [c EXCEPT !.pc = "retornou"]
                                      ELSE [c EXCEPT !.pos = fim], TRUE)]
    /\ UNCHANGED <<tokVars, scanVars, tabVars, mainVars, execVars, pyVars>>

\* the loop of call k is over: the result is built from its accumulators
Q_Finalizar(k) ==
    /\ chamadas # <<>>
    /\ chamadas[k].pc = "lendo"
    /\ chamadas[k].pos = Len(chamadas[k].f.rows)
    /\ \E r \in RetornosDe(chamadas[k], acumuladores[AcumuladorDe(k)]) :
           chamadas' = [chamadas EXCEPT
               ![k] = Registrar(k, [chamadas[k] EXCEPT !.pc = "retornou", !.retorno = r],
                                FALSE)]
    /\ UNCHANGED <<acumuladores, tokVars, scanVars, tabVars, mainVars, execVars, pyVars>>

NextConc == \E k \in {1, 2} : Q_Abrir(k) \/ Q_Chunk(k) \/ Q_Finalizar(k)

SpecConc == InitConc /\ [][NextConc]_vars

\* C21: a call of a scan shares no accumulator with another call: whatever
\* the other call does and however the passes of the two calls interleave,
\* the value a call returns is a value the scan returns for its source when
\* it runs alone.
C21_ScanResultIndependentOfOtherScan ==
    \A k \in DOMAIN chamadas :
        chamadas[k].pc = "retornou" =>
            chamadas[k].retorno
                \in ResultadosDoScan(chamadas[k].prog, chamadas[k].f, COLUNAS_ANALISE,
                                     chamadas[k].filt, chamadas[k].cs)

\* C21 witness: both calls have returned a result; each made a pass over a
\* batch between two passes of the other; the first call, filtering, counted
\* the one public-entity row of its two rows, the second its two rows.
C21_Witness ==
    /\ chamadas # <<>>
    /\ chamadas[1].pc = "retornou" /\ chamadas[2].pc = "retornou"
    /\ ~chamadas[1].retorno.none /\ ~chamadas[2].retorno.none
    /\ chamadas[1].intercalou /\ chamadas[2].intercalou
    /\ chamadas[1].filt
    /\ chamadas[1].f.rows = <<LinhaEntePublico, LinhaOutraParte>>
    /\ chamadas[1].retorno.dados["F"].total_ocorrencias = 1
    /\ chamadas[2].retorno.dados["F"].total_ocorrencias = 2

=============================================================================
